---- MODULE Spec2Model ----
(***************************************************************************)
(* Model of the prop-bet analyzer's projection and scoring engines:        *)
(*   backend/app/core/analysis_engine.py     (AnalysisEngine)              *)
(*   backend/app/core/halftime_engine.py     (HalftimeAnalysisEngine)      *)
(*   backend/app/core/game_totals_engine.py  (GameTotalsEngine)            *)
(* and of the collaborators they call (live_data_client, balldontlie).     *)
(*                                                                         *)
(* Numbers.  The engines compute in binary floating point.  The model      *)
(* computes in fixed point: a quantity q is held as the integer q * Scale  *)
(* ("milli-units"), products and quotients are floored to the next         *)
(* milli-unit.  Counts (points, fouls, ranks, whole confidences) are plain *)
(* integers where the code keeps them integral.                            *)
(***************************************************************************)
EXTENDS Integers, Sequences, FiniteSets, TLC

\* one unit in milli-units
Scale == 10 * 10 * 10

Min(a, b) == IF a <= b THEN a ELSE b
Max(a, b) == IF a >= b THEN a ELSE b
Abs(a) == IF a >= 0 THEN a ELSE -a
\* floor division that is also right for a negative numerator
FloorDiv(a, b) == IF a >= 0 THEN a \div b ELSE -((-a + b - 1) \div b)
\* a * b for two milli-unit quantities
MulM(a, b) == FloorDiv(a * b, Scale)
\* a * b for two milli-unit quantities, a >= 0 and b >= 0, without forming a * b
MulBig(a, b) == (a \div Scale) * b + ((a % Scale) * b) \div Scale
\* floor(a * Scale / b) for a >= 0, b > 0, without forming a * Scale
DivScaled(a, b) == (a \div b) * Scale + ((a % b) * Scale) \div b
\* round(x, 2) and round(x, 1) of a milli-unit quantity (ties upward)
Round2(x) == FloorDiv(x + 5, 10) * 10
Round1(x) == FloorDiv(x + 50, 100) * 100

RECURSIVE SumSeq(_)
SumSeq(s) == IF s = <<>> THEN 0 ELSE Head(s) + SumSeq(Tail(s))

RECURSIVE SelectIdx(_, _, _)
\* the elements of s in order whose index satisfies keep
SelectIdx(s, keep, i) ==
    IF i > Len(s) THEN <<>>
    ELSE (IF keep[i] THEN <<s[i]>> ELSE <<>>) \o SelectIdx(s, keep, i + 1)

Range(s) == {s[i] : i \in DOMAIN s}

VARIABLES
    \* ---- analysis_engine: one analyze_bet_slip request ----
    props,          \* the caller's PropBetData objects (mutable, passed by reference)
    props0,         \* their field values when the request started
    svc,            \* what balldontlie answered for each prop analysed so far
    prop_analyses,  \* the PropAnalysis records produced so far
    slip,           \* <<>> until analyze_bet_slip returns, then <<its result>>
    \* ---- halftime_engine: the module-level engine and the requests it serves ----
    nba,                  \* condition of stats.nba.com: "ok", "timeout" or "error"
    outages,              \* how many times that condition has changed
    _team_ratings_cache,  \* halftime_engine._team_ratings_cache: team id -> <<>> or <<ratings>>
    cache_writer,         \* (history) the request that stored each entry, 0 for none
    call,                 \* the get_halftime_analysis coroutines, by request
    \* ---- a scoring function called on its own ----
    probe,          \* the function, its arguments, and <<>> or <<what it returned>>
    \* ---- game_totals_engine: a GameTotalsEngine object and its analyze() runs ----
    totals_engine

propVars == <<props, props0, svc, prop_analyses, slip, probe>>
engineVars == <<nba, outages, _team_ratings_cache, cache_writer, call>>
totalsVars == <<totals_engine>>
vars == <<props, props0, svc, prop_analyses, slip, probe,
          nba, outages, _team_ratings_cache, cache_writer, call, totals_engine>>

(***************************************************************************)
(* analysis_engine.py                                                      *)
(***************************************************************************)

\* a stat value of None in a game row
NoneStat == 0 - 1

\* game rows: v is game[stat_key], min is game['min'] as
\* "mmss" ("34:25"), "num" ("34" or 34), "bad" (a string float() rejects), "none" (absent or empty)
Game(v, fmt, m, s) == [v |-> v, fmt |-> fmt, m |-> m, s |-> s]

\* self.service.search_player: None (0) when the request fails or nothing matches
search_player(upstream) ==
    IF upstream.fail THEN 0
    ELSE IF upstream.players = <<>> THEN 0
    ELSE Head(upstream.players)

\* self.service.get_player_stats: [] when the request fails
get_player_stats(upstream) ==
    IF upstream.fail THEN <<>> ELSE upstream.data

ValidValues(games) ==
    SelectIdx([i \in DOMAIN games |-> games[i].v],
              [i \in DOMAIN games |-> games[i].v # NoneStat], 1)

\* variant: every game counts as valid, also one whose stat is None
HitRateOverAllGames(games, prop) ==
    LET hit(g) == /\ g.v # NoneStat
                  /\ \/ prop.over_under = "over" /\ g.v * Scale > prop.line
                     \/ prop.over_under = "under" /\ g.v * Scale < prop.line
        hits == Cardinality({i \in DOMAIN games : hit(games[i])})
    IN  IF Len(games) > 0 THEN (hits * 100 * Scale) \div Len(games) ELSE 0

_calculate_hit_rate(games, prop) ==
    LET vals == ValidValues(games)
        hit(v) == \/ prop.over_under = "over" /\ v * Scale > prop.line
                  \/ prop.over_under = "under" /\ v * Scale < prop.line
        hits == Cardinality({i \in DOMAIN vals : hit(vals[i])})
    IN  IF Len(vals) > 0 THEN (hits * 100 * Scale) \div Len(vals) ELSE 0

_calculate_average_stat(games) ==
    LET vals == ValidValues(games)
    IN  IF Len(vals) > 0 THEN (SumSeq(vals) * Scale) \div Len(vals) ELSE 0

\* np.polyfit(range(n), y, 1)[0]: the least-squares slope, in milli-units
PolyfitSlope(y) ==
    LET n == Len(y)
        sx == SumSeq([i \in 1..n |-> i - 1])
        sxx == SumSeq([i \in 1..n |-> (i - 1) * (i - 1)])
        sy == SumSeq(y)
        sxy == SumSeq([i \in 1..n |-> (i - 1) * y[i]])
        den == n * sxx - sx * sx
    IN  IF den = 0 THEN 0 ELSE FloorDiv((n * sxy - sx * sy) * Scale, den)

\* np.var: the population variance, in milli-units
Variance(y) ==
    LET n == Len(y)
        s1 == SumSeq(y)
        s2 == SumSeq([i \in 1..n |-> y[i] * y[i]])
    IN  ((n * s2 - s1 * s1) * Scale) \div (n * n)

\* minutes of one game row, in milli-units; "bad" rows make the whole parse raise
MinutesOf(g) ==
    IF g.fmt = "mmss" THEN g.m * Scale + (g.s * Scale) \div 60 ELSE g.m * Scale

\* the factor map as a record; 'has' tells which keys the dict holds
_analyze_factors(games) ==
    LET first5 == SubSeq(games, 1, Min(5, Len(games)))
        recent == ValidValues(first5)
        hasTrend == Len(games) >= 5 /\ Len(recent) > 0
        stats == ValidValues(games)
        hasCons == Len(stats) > 0
        withMin == SelectIdx(games, [i \in DOMAIN games |-> games[i].fmt # "none"
                                        /\ ~(games[i].fmt = "num" /\ games[i].m = 0)], 1)
        bad == \E i \in DOMAIN withMin : withMin[i].fmt = "bad"
        avgMin == (SumSeq([i \in DOMAIN withMin |-> MinutesOf(withMin[i])])) \div Len(withMin)
    IN  [ has |-> [recent_trend |-> hasTrend, consistency |-> hasCons,
                   home_away |-> TRUE, rest |-> TRUE, playing_time |-> Len(withMin) > 0],
          recent_trend |-> IF hasTrend
                           THEN Max(0 - Scale, Min(Scale, FloorDiv(PolyfitSlope(recent), 5)))
                           ELSE 0,
          consistency |-> IF hasCons THEN Scale - Min(Variance(stats) \div 50, Scale) ELSE 0,
          home_away |-> 0,
          rest |-> 0,
          playing_time |-> IF Len(withMin) = 0 THEN 0
                           ELSE IF bad THEN Scale \div 2
                           ELSE Min(avgMin \div 35, Scale) ]

\* variant: a factor the dict does not hold counts as 1.0
FactorGetOne(factors, k) == IF factors.has[k] THEN factors[k] ELSE Scale

\* factors.get(k, 0)
FactorGet(factors, k) == IF factors.has[k] THEN factors[k] ELSE 0

NoFactors ==
    [ has |-> [recent_trend |-> FALSE, consistency |-> FALSE, home_away |-> FALSE,
               rest |-> FALSE, playing_time |-> FALSE],
      recent_trend |-> 0, consistency |-> 0, home_away |-> 0, rest |-> 0, playing_time |-> 0 ]

factor_weights ==
    [recent_trend |-> 8, consistency |-> 10, home_away |-> 5, rest |-> 3, playing_time |-> 8]

\* variant: only the upper limit is applied
ClipConfidenceAbove(c) == Min(100 * Scale, c)

\* np.clip(confidence, 0, 100)
ClipConfidence(c) == Max(0, Min(100 * Scale, c))

_calculate_confidence(hit_rate, factors, avg_stat, line) ==
    LET distance_from_line == Abs(avg_stat - line)
        distance_boost == IF avg_stat > line
                          THEN Min(distance_from_line * 2, 10 * Scale)
                          ELSE 0 - Min(distance_from_line * 2, 10 * Scale)
        factor_adjustment ==
              FactorGet(factors, "recent_trend") * factor_weights.recent_trend
            + FactorGet(factors, "consistency") * factor_weights.consistency
            + FactorGet(factors, "home_away") * factor_weights.home_away
            + FactorGet(factors, "rest") * factor_weights.rest
            + FactorGet(factors, "playing_time") * factor_weights.playing_time
    IN  ClipConfidence(hit_rate + distance_boost + factor_adjustment)

_generate_recommendation(confidence) ==
    IF confidence >= 70 * Scale THEN "strong_bet"
    ELSE IF confidence >= 58 * Scale THEN "bet"
    ELSE IF confidence >= 45 * Scale THEN "neutral"
    ELSE IF confidence >= 30 * Scale THEN "avoid"
    ELSE "strong_avoid"

\* variant: the default result reports no average
DefaultAnalysisZeroAverage(prop, reason) ==
    [ prop_id |-> prop.prop_id, player_name |-> prop.player_name,
      stat_type |-> prop.stat_type, line |-> prop.line, over_under |-> prop.over_under,
      confidence_score |-> 50 * Scale, hit_rate_last_10 |-> 50 * Scale,
      average_stat |-> 0, factors |-> NoFactors,
      recommendation |-> "neutral", analysis_notes |-> "Unable to analyze: " \o reason ]

_create_default_analysis(prop, reason) ==
    [ prop_id |-> prop.prop_id, player_name |-> prop.player_name,
      stat_type |-> prop.stat_type, line |-> prop.line, over_under |-> prop.over_under,
      confidence_score |-> 50 * Scale, hit_rate_last_10 |-> 50 * Scale,
      average_stat |-> prop.line, factors |-> NoFactors,
      recommendation |-> "neutral", analysis_notes |-> "Unable to analyze: " \o reason ]

\* prop.player_id after the lookup of lines 77-80
ResolvedPlayerId(prop, found) ==
    IF prop.player_id = 0 /\ found # 0 THEN found ELSE prop.player_id

\* analyze_prop's return value; found = search_player's answer, games = get_player_stats' answer
PropAnalysisOf(prop, found, games) ==
    LET pid == ResolvedPlayerId(prop, found)
        hit_rate == _calculate_hit_rate(games, prop)
        average_stat == _calculate_average_stat(games)
        factors == _analyze_factors(games)
        confidence == _calculate_confidence(hit_rate, factors, average_stat, prop.line)
    IN  IF pid = 0 THEN _create_default_analysis(prop, "Player not found in database")
        ELSE IF games = <<>>
        THEN _create_default_analysis(prop, "No recent game data available")
        ELSE [ prop_id |-> prop.prop_id, player_name |-> prop.player_name,
               stat_type |-> prop.stat_type, line |-> prop.line,
               over_under |-> prop.over_under,
               confidence_score |-> Round2(confidence),
               hit_rate_last_10 |-> Round2(hit_rate),
               average_stat |-> Round2(average_stat),
               factors |-> factors,
               recommendation |-> _generate_recommendation(confidence),
               analysis_notes |-> "notes" ]

RECURSIVE InsertDesc(_, _)
\* x put into s (already in non-increasing confidence order) behind every
\* element whose confidence_score is >= its own
InsertDesc(s, x) ==
    IF s = <<>> THEN <<x>>
    ELSE IF Head(s).confidence_score >= x.confidence_score
         THEN <<Head(s)>> \o InsertDesc(Tail(s), x)
         ELSE <<x>> \o s

RECURSIVE SortDesc(_)
\* sorted(s, key=confidence_score, reverse=True): stable
SortDesc(s) ==
    IF s = <<>> THEN <<>>
    ELSE InsertDesc(SortDesc(SubSeq(s, 1, Len(s) - 1)), s[Len(s)])

\* variant: the sum is divided by one more than the number of values
MeanOverOneMore(s) == SumSeq(s) \div (Len(s) + 1)

\* np.mean of milli-unit values
Mean(s) == SumSeq(s) \div Len(s)

\* the dictionary analyze_bet_slip returns
BetSlipResult(analyses) ==
    LET confidences == [i \in DOMAIN analyses |-> analyses[i].confidence_score]
        overall_confidence == IF Len(confidences) > 0 THEN Mean(confidences) ELSE 50 * Scale
        recommended == SelectIdx([i \in DOMAIN analyses |-> analyses[i].prop_id],
                                 [i \in DOMAIN analyses |->
                                     analyses[i].confidence_score >= 58 * Scale], 1)
        risk == IF overall_confidence >= 65 * Scale THEN "low"
                ELSE IF overall_confidence >= 50 * Scale THEN "medium"
                ELSE "high"
        sorted == SortDesc(analyses)
        top_props == SubSeq(sorted, 1, Min(3, Len(sorted)))
        top2 == SubSeq(top_props, 1, Min(2, Len(top_props)))
        ids(t) == [i \in DOMAIN t |-> t[i].prop_id]
        conf(t) == Mean([i \in DOMAIN t |-> t[i].confidence_score])
    IN  [ overall_confidence |-> Round2(overall_confidence),
          risk_assessment |-> risk,
          recommended_bets |-> recommended,
          parlay_suggestions |->
              IF Len(top_props) >= 2
              THEN << [props |-> ids(top2), confidence |-> conf(top2)],
                      [props |-> ids(top_props), confidence |-> conf(top_props)] >>
              ELSE <<>>,
          prop_analyses |-> analyses ]

(***************************************************************************)
(* Inputs of the prop-history analyzer                                     *)
(***************************************************************************)
MaxProps == 2
MaxGames == 3
LongGames == 10

PlayerName(i) == IF i = 1 THEN "A" ELSE "B"
\* the id balldontlie holds for each name
KnownId(name) == IF name = "A" THEN 7 ELSE 8

\* the props a caller may put at place i of a slip
PropInputs(i) ==
    { [ prop_id |-> i, player_name |-> PlayerName(i), player_id |-> pid,
        stat_type |-> "points", line |-> ln, over_under |-> ou,
        opponent_name |-> "BOS", game_date |-> 0 ] :
      pid \in {0, KnownId(PlayerName(i))},
      ln \in IF i = 1 THEN {15 * Scale, 20 * Scale + Scale \div 2} ELSE {20 * Scale},
      ou \in {"over", "under"} }

Slips ==
    UNION { {s \in [1..n -> UNION {PropInputs(i) : i \in 1..MaxProps}] :
                \A i \in 1..n : s[i] \in PropInputs(i)} : n \in 0..MaxProps }

GameRows ==
    { Game(NoneStat, "none", 0, 0), Game(10, "mmss", 34, 25),
      Game(20, "num", 36, 0), Game(30, "mmss", 20, 0), Game(20, "bad", 0, 0) }

\* n games after a pattern: all equal, rising, falling, alternating, one value missing
PatternGames(pat, n) ==
    [ i \in 1..n |->
        CASE pat = "const20" -> Game(20, "mmss", 34, 25)
          [] pat = "rise"    -> Game(10 + 3 * i, "num", 30, 0)
          [] pat = "fall"    -> Game(40 - 3 * i, "mmss", 38, 30)
          [] pat = "alt"     -> Game(IF i % 2 = 0 THEN 12 ELSE 26, "mmss", 28, 0)
          [] pat = "gap"     -> IF i = 2 THEN Game(NoneStat, "none", 0, 0)
                                ELSE Game(18, "num", 12, 0) ]

\* four games whose confidence against a line of 15.0 is just under 58
NearThresholdGames ==
    << Game(8, "mmss", 34, 51), Game(8, "mmss", 30, 0),
       Game(16, "mmss", 30, 0), Game(17, "mmss", 30, 0) >>

Histories(name) ==
    IF name = "A"
    THEN UNION { [1..n -> GameRows] : n \in 1..(MaxGames - 1) }
         \cup { NearThresholdGames }
         \cup { PatternGames(pat, n) : pat \in {"const20", "rise", "fall", "alt", "gap"},
                                       n \in MaxGames..LongGames }
    ELSE { PatternGames(pat, LongGames) : pat \in {"const20", "alt"} }

\* what the balldontlie API may answer
SearchUpstream(name) ==
    { [fail |-> TRUE, players |-> <<>>], [fail |-> FALSE, players |-> <<>>],
      [fail |-> FALSE, players |-> <<KnownId(name)>>] }
StatsUpstream(name) ==
    { [fail |-> TRUE, data |-> <<>>], [fail |-> FALSE, data |-> <<>>] }
    \cup { [fail |-> FALSE, data |-> h] : h \in Histories(name) }
\* the log entry of a request that was not made
NotAsked == [fail |-> FALSE, players |-> <<>>]
NotFetched == [fail |-> FALSE, data |-> <<>>]

(***************************************************************************)
(* halftime_engine.py: constants and pure helpers                          *)
(***************************************************************************)
BLOWOUT_THRESHOLD == 20
FOUL_TROUBLE_THRESHOLD == 3
LEAGUE_AVG_PACE == 100 * Scale
LEAGUE_AVG_TOTAL == 225
LEAGUE_AVG_OFF_RTG == 114 * Scale
LEAGUE_AVG_DEF_RTG == 114 * Scale
\* Q3_PACE_FACTOR 0.92 and PACE_SUSTAINABILITY 0.95, in milli-units
HT_Q3_PACE_FACTOR == 920
PACE_SUSTAINABILITY == 950

\* PROJECTION_WEIGHTS, in hundredths
PROJECTION_WEIGHTS ==
    [ first_half_trend |-> 18, shooting_efficiency |-> 18, shot_volume |-> 15,
      opponent_defense |-> 14, score_situation |-> 10, historical_2h_avg |-> 8,
      pace_adjustment |-> 7, plus_minus_factor |-> 5, utilization_rate |-> 3,
      fatigue_factor |-> 2 ]

\* TeamRatings(team_id, team_abbr) with the dataclass defaults
DefaultRatings(team_id) ==
    [ team_id |-> team_id, off_rating |-> LEAGUE_AVG_OFF_RTG,
      def_rating |-> LEAGUE_AVG_DEF_RTG, pace |-> LEAGUE_AVG_PACE,
      def_rank_pts |-> 15, def_rank_reb |-> 15, def_rank_ast |-> 15, def_rank_3pm |-> 15 ]

\* a LivePlayerStats row; minutes_float in milli-minutes
Row(id, team, mins, pts, reb, ast, tov, fouls, fgm, fga, fg3m, fg3a, ftm, fta, pm, starter) ==
    [ player_id |-> id, team_abbreviation |-> team, minutes_float |-> mins,
      points |-> pts, rebounds |-> reb, assists |-> ast, turnovers |-> tov,
      fouls |-> fouls, fg_made |-> fgm, fg_attempted |-> fga, fg3_made |-> fg3m,
      fg3_attempted |-> fg3a, ft_made |-> ftm, ft_attempted |-> fta,
      plus_minus |-> pm, starter |-> starter ]

\* LiveGameData.score_differential and total_score
score_differential(g) == Abs(g.home_score - g.away_score)
total_score(g) == g.home_score + g.away_score

_get_stat_value(stats, prop_type) ==
    Scale * ( CASE prop_type = "points" -> stats.points
                [] prop_type = "rebounds" -> stats.rebounds
                [] prop_type = "assists" -> stats.assists
                [] prop_type = "threes" -> stats.fg3_made
                [] OTHER -> 0 )

\* true-shooting attempts FGA + 0.44 FTA, in hundredths
TSA100(fga, fta) == fga * 100 + 44 * fta

\* ShootingMetrics: percentages in milli-units, rounded to one decimal
_calculate_shooting_metrics(stats) ==
    LET fga == stats.fg_attempted
        tsa == TSA100(fga, stats.ft_attempted)
    IN  [ fg_pct |-> IF fga > 0 THEN Round1((stats.fg_made * 100 * Scale) \div fga) ELSE 0,
          fg3_pct |-> IF stats.fg3_attempted > 0
                      THEN Round1((stats.fg3_made * 100 * Scale) \div stats.fg3_attempted)
                      ELSE 0,
          ft_pct |-> IF stats.ft_attempted > 0
                     THEN Round1((stats.ft_made * 100 * Scale) \div stats.ft_attempted)
                     ELSE 0,
          efg_pct |-> IF fga > 0
                      THEN Round1(((2 * stats.fg_made + stats.fg3_made) * 50 * Scale) \div fga)
                      ELSE 0,
          ts_pct |-> IF tsa > 0 THEN Round1((stats.points * 50 * 100 * Scale) \div tsa) ELSE 0 ]

\* None is <<>>, a ratio r is <<r>> (milli-units)
_calculate_assist_to_turnover(stats) ==
    IF stats.turnovers = 0
    THEN IF stats.assists > 0 THEN <<stats.assists * Scale>> ELSE <<>>
    ELSE <<Round2((stats.assists * Scale) \div stats.turnovers)>>

\* estimated possessions FGA + 0.44 FTA + TOV, in hundredths
Poss100(p) == p.fg_attempted * 100 + 44 * p.ft_attempted + 100 * p.turnovers

_calculate_utilization_rate(stats, team_stats) ==
    LET team_possessions == SumSeq([i \in DOMAIN team_stats |-> Poss100(team_stats[i])])
    IN  IF team_stats = <<>> THEN 0
        ELSE IF team_possessions = 0 THEN 0
        ELSE (Poss100(stats) * 100 * Scale) \div team_possessions

\* first_half_minutes in whole minutes (the default argument is 24.0)
_calculate_pace_factor(game_data, first_half_minutes) ==
    IF first_half_minutes <= 0 THEN Scale
    ELSE (total_score(game_data) * 48 * Scale) \div (first_half_minutes * LEAGUE_AVG_TOTAL)

_calculate_plus_minus_factor(plus_minus, minutes) ==
    IF minutes <= 0 THEN Scale
    ELSE LET factor == Scale + FloorDiv(plus_minus * 20 * Scale, minutes)
         IN  Max(850, Min(1150, factor))

_get_opponent_def_adjustment(opponent_def_rank, prop_type) ==
    IF opponent_def_rank <= 5 THEN 900
    ELSE IF opponent_def_rank <= 10 THEN 950
    ELSE IF opponent_def_rank <= 20 THEN 1000
    ELSE IF opponent_def_rank <= 25 THEN 1050
    ELSE 1100

_get_shooting_efficiency_factor(shooting, prop_type) ==
    IF prop_type = "points"
    THEN IF shooting.ts_pct >= 70 * Scale THEN 1120
         ELSE IF shooting.ts_pct >= 60 * Scale THEN 1080
         ELSE IF shooting.ts_pct >= 55 * Scale THEN 1040
         ELSE IF shooting.ts_pct >= 45 * Scale THEN 1000
         ELSE IF shooting.ts_pct >= 35 * Scale THEN 950
         ELSE 900
    ELSE IF prop_type = "threes"
    THEN IF shooting.fg3_pct >= 50 * Scale THEN 1100
         ELSE IF shooting.fg3_pct >= 40 * Scale THEN 1050
         ELSE IF shooting.fg3_pct >= 33 * Scale THEN 1000
         ELSE IF shooting.fg3_pct >= 20 * Scale THEN 950
         ELSE 900
    ELSE IF shooting.ts_pct >= 55 * Scale THEN 1020 ELSE 1000

\* variant: the foul count alone
DetectFoulTroubleByCount(fouls, minutes) == fouls >= FOUL_TROUBLE_THRESHOLD

_detect_foul_trouble(fouls, minutes) ==
    \/ fouls >= FOUL_TROUBLE_THRESHOLD
    \/ minutes > 0 /\ fouls * 8 * Scale > minutes

\* variant: a differential above the threshold only
DetectBlowoutAbove(score_diff) == Abs(score_diff) > BLOWOUT_THRESHOLD

_detect_blowout(score_diff) == Abs(score_diff) >= BLOWOUT_THRESHOLD

_get_fatigue_factor(is_back_to_back) == IF is_back_to_back THEN 920 ELSE 1000

_calculate_minutes_projection(first_half_minutes, foul_trouble, blowout_warning, is_starter) ==
    LET a == IF foul_trouble THEN (first_half_minutes * 75) \div 100 ELSE first_half_minutes
        b == IF blowout_warning
             THEN IF is_starter THEN (a * 70) \div 100 ELSE (a * 115) \div 100
             ELSE a
    IN  Min(b, 24 * Scale)

_calculate_shot_volume_factor(fg_attempted, ft_attempted, minutes, prop_type) ==
    LET shots == TSA100(fg_attempted, ft_attempted) * 10  \* milli-shots
        \* shots_per_min >= x/100 without dividing
        atLeast(x) == shots * 100 >= x * minutes
    IN  IF minutes <= 0 THEN 1000
        ELSE IF prop_type = "points"
        THEN IF atLeast(100) THEN 1150
             ELSE IF atLeast(75) THEN 1100
             ELSE IF atLeast(50) THEN 1050
             ELSE IF atLeast(30) THEN 1000
             ELSE 900
        ELSE IF atLeast(75) THEN 1050
             ELSE IF atLeast(40) THEN 1000
             ELSE 950

\* components and weighted sum of the second-half projection (milli-units);
\* historical_2h_avg is <<>> for None
ProjectionComponents(first_half_value, first_half_minutes, projected_minutes, pace_factor, utilization_rate, fatigue_factor, historical_2h_avg, blowout_warning, shooting_metrics, plus_minus, opponent_def_rank, prop_type, fg_attempted, ft_attempted, score_diff) ==
    LET trend == (first_half_value * projected_minutes) \div first_half_minutes
        has_hist == historical_2h_avg # <<>> /\ historical_2h_avg # <<0>>
        utilization_multiplier ==
            IF utilization_rate > 30 * Scale
            THEN 900 + FloorDiv(30 * Scale - utilization_rate, 100)
            ELSE IF utilization_rate < 15 * Scale THEN 1050 ELSE 1000
    IN  [ first_half_trend |-> trend,
          shooting_efficiency |->
              MulM(trend, _get_shooting_efficiency_factor(shooting_metrics, prop_type)),
          shot_volume |->
              MulM(trend, _calculate_shot_volume_factor(fg_attempted, ft_attempted,
                                                        first_half_minutes, prop_type)),
          opponent_defense |->
              MulM(trend, _get_opponent_def_adjustment(opponent_def_rank, prop_type)),
          score_situation |->
              IF blowout_warning THEN MulM(trend, 750)
              ELSE IF Abs(score_diff) <= 5 THEN MulM(trend, 1080)
              ELSE IF Abs(score_diff) <= 10 THEN MulM(trend, 1030)
              ELSE trend,
          historical_2h_avg |->
              IF has_hist THEN (historical_2h_avg[1] * projected_minutes) \div (24 * Scale)
              ELSE trend,
          pace_adjustment |-> MulM(MulM(trend, pace_factor), PACE_SUSTAINABILITY),
          plus_minus_factor |->
              MulM(trend, _calculate_plus_minus_factor(plus_minus, first_half_minutes)),
          utilization_rate |-> MulM(trend, utilization_multiplier),
          fatigue_factor |-> MulM(trend, fatigue_factor) ]

WeightKeys == DOMAIN PROJECTION_WEIGHTS

RECURSIVE WeightedSum(_, _, _)
WeightedSum(components, weights, keys) ==
    IF keys = {} THEN 0
    ELSE LET k == CHOOSE x \in keys : TRUE
         IN  components[k] * weights[k] + WeightedSum(components, weights, keys \ {k})

_calculate_second_half_projection(first_half_value, first_half_minutes, projected_minutes, pace_factor, utilization_rate, fatigue_factor, historical_2h_avg, blowout_warning, shooting_metrics, plus_minus, opponent_def_rank, prop_type, fg_attempted, ft_attempted, score_diff) ==
    IF first_half_minutes <= 0
    THEN IF historical_2h_avg # <<>> /\ historical_2h_avg # <<0>>
         THEN historical_2h_avg[1] ELSE 0
    ELSE LET components ==
                 ProjectionComponents(first_half_value, first_half_minutes, projected_minutes,
                     pace_factor, utilization_rate, fatigue_factor, historical_2h_avg,
                     blowout_warning, shooting_metrics, plus_minus, opponent_def_rank,
                     prop_type, fg_attempted, ft_attempted, score_diff)
             projected == FloorDiv(WeightedSum(components, PROJECTION_WEIGHTS, WeightKeys), 100)
         IN  Max(0, projected)

\* the clamp of line 721
ClampConfidence(confidence) == Max(0, Min(100, confidence))

\* confidence before the clamp, in whole points (confidence starts at 50.0 and
\* only whole numbers are added)
RawLiveConfidence(projected_final, prop_line, first_half_value, historical_consistency, shooting_metrics, foul_trouble, blowout_warning, utilization_rate, plus_minus, opponent_def_rank, assist_to_turnover) ==
    LET distance == projected_final - prop_line
        sgn == IF distance > 0 THEN 1 ELSE 0 - 1
        \* abs(distance_pct) > x and progress_pct >= x, cross-multiplied
        distOver(x) == prop_line > 0 /\ Abs(distance) * 100 > x * prop_line
        progAtLeast(x) == prop_line > 0 /\ first_half_value * 100 >= x * prop_line
        ts == shooting_metrics.ts_pct
    IN  50
        + (IF distOver(20) THEN 20 * sgn
           ELSE IF distOver(10) THEN 12 * sgn
           ELSE IF distOver(5) THEN 6 * sgn ELSE 0)
        + (IF progAtLeast(60) THEN 18
           ELSE IF progAtLeast(50) THEN 10
           ELSE IF progAtLeast(40) THEN 4
           ELSE IF ~progAtLeast(30) THEN 0 - 8 ELSE 0)
        + (IF ts >= 65 * Scale THEN 10
           ELSE IF ts >= 55 * Scale THEN 6
           ELSE IF ts >= 45 * Scale THEN 2
           ELSE IF ts < 35 * Scale THEN 0 - 6 ELSE 0)
        + (IF plus_minus >= 10 THEN 8
           ELSE IF plus_minus >= 5 THEN 4
           ELSE IF plus_minus <= 0 - 10 THEN 0 - 6
           ELSE IF plus_minus <= 0 - 5 THEN 0 - 3 ELSE 0)
        + (IF opponent_def_rank >= 25 THEN 6
           ELSE IF opponent_def_rank >= 20 THEN 3
           ELSE IF opponent_def_rank <= 5 THEN 0 - 6
           ELSE IF opponent_def_rank <= 10 THEN 0 - 3 ELSE 0)
        + (IF assist_to_turnover = <<>> THEN 0
           ELSE IF assist_to_turnover[1] >= 3 * Scale THEN 4
           ELSE IF assist_to_turnover[1] >= 2 * Scale THEN 2
           ELSE IF assist_to_turnover[1] < Scale THEN 0 - 2 ELSE 0)
        + (IF historical_consistency > 70 THEN 4
           ELSE IF historical_consistency < 30 THEN 0 - 4 ELSE 0)
        + (IF foul_trouble THEN 0 - 10 ELSE 0)
        + (IF blowout_warning THEN 0 - 12 ELSE 0)
        + (IF utilization_rate > 35 * Scale THEN 0 - 4 ELSE 0)

\* variant: the "bet" and "lean" thresholds are exchanged
LiveRecommendationSwapped(distance_positive, confidence) ==
    IF distance_positive
    THEN IF confidence >= 75 THEN "strong_bet"
         ELSE IF confidence >= 65 THEN "lean"
         ELSE IF confidence >= 55 THEN "bet"
         ELSE IF confidence >= 45 THEN "neutral"
         ELSE "avoid"
    ELSE IF confidence <= 25 THEN "strong_avoid"
         ELSE IF confidence <= 35 THEN "avoid"
         ELSE IF confidence <= 45 THEN "neutral"
         ELSE "lean"

\* variant: "lean" above the line starts at confidence 50
LiveRecommendationLeanFrom50(distance_positive, confidence) ==
    IF distance_positive
    THEN IF confidence >= 75 THEN "strong_bet"
         ELSE IF confidence >= 65 THEN "bet"
         ELSE IF confidence >= 50 THEN "lean"
         ELSE IF confidence >= 45 THEN "neutral"
         ELSE "avoid"
    ELSE IF confidence <= 25 THEN "strong_avoid"
         ELSE IF confidence <= 35 THEN "avoid"
         ELSE IF confidence <= 45 THEN "neutral"
         ELSE "lean"

\* lines 723-743: distance_positive is (projected_final - prop_line > 0)
LiveRecommendation(distance_positive, confidence) ==
    IF distance_positive
    THEN IF confidence >= 75 THEN "strong_bet"
         ELSE IF confidence >= 65 THEN "bet"
         ELSE IF confidence >= 55 THEN "lean"
         ELSE IF confidence >= 45 THEN "neutral"
         ELSE "avoid"
    ELSE IF confidence <= 25 THEN "strong_avoid"
         ELSE IF confidence <= 35 THEN "avoid"
         ELSE IF confidence <= 45 THEN "neutral"
         ELSE "lean"

\* (confidence, recommendation)
_calculate_confidence_score(projected_final, prop_line, first_half_value, historical_consistency, shooting_metrics, foul_trouble, blowout_warning, utilization_rate, plus_minus, opponent_def_rank, assist_to_turnover) ==
    LET confidence ==
            ClampConfidence(RawLiveConfidence(projected_final, prop_line, first_half_value,
                historical_consistency, shooting_metrics, foul_trouble, blowout_warning,
                utilization_rate, plus_minus, opponent_def_rank, assist_to_turnover))
    IN  <<confidence, LiveRecommendation(projected_final - prop_line > 0, confidence)>>

_get_opponent_def_rank_for_stat(opp_ratings, prop_type) ==
    CASE prop_type = "points" -> opp_ratings.def_rank_pts
      [] prop_type = "rebounds" -> opp_ratings.def_rank_reb
      [] prop_type = "assists" -> opp_ratings.def_rank_ast
      [] prop_type = "threes" -> opp_ratings.def_rank_3pm
      [] OTHER -> 15

\* live_data_client.get_player_season_stats on a non-empty game log whose
\* column means are avg (milli-units); None is <<>>
SeasonStatsOf(avg) ==
    [ avg_points |-> avg.pts, avg_rebounds |-> avg.reb, avg_assists |-> avg.ast,
      second_half_avg_points |-> (avg.pts * 48) \div 100,
      second_half_avg_rebounds |-> (avg.reb * 52) \div 100,
      second_half_avg_assists |-> (avg.ast * 48) \div 100 ]

\* lines 792-805: (season_avg, historical_2h_avg), each <<>> for None
HistoricalFor(season_stats, prop_type) ==
    IF season_stats = <<>> THEN <<<<>>, <<>>>>
    ELSE CASE prop_type = "points" ->
                <<<<season_stats[1].avg_points>>, <<season_stats[1].second_half_avg_points>>>>
           [] prop_type = "rebounds" ->
                <<<<season_stats[1].avg_rebounds>>, <<season_stats[1].second_half_avg_rebounds>>>>
           [] prop_type = "assists" ->
                <<<<season_stats[1].avg_assists>>, <<season_stats[1].second_half_avg_assists>>>>
           [] OTHER -> <<<<>>, <<>>>>

\* round(x, 1) if x else None
RoundOpt(x) == IF x = <<>> \/ x = <<0>> THEN <<>> ELSE <<Round1(x[1])>>

\* variant: the final value is the second-half projection alone
ProjectedFinalOfSecondHalf(first_half_value, projected_second_half) == projected_second_half

\* line 836
ProjectedFinal(first_half_value, projected_second_half) ==
    first_half_value + projected_second_half

\* opp_ratings is what _get_team_ratings(opponent_team_id, ..) returned at line 788,
\* season_stats what get_player_season_stats returned at line 795
analyze_halftime_player(live_stats, prop_line, prop_type, game_data, team_stats, opp_ratings, team_ratings, season_stats, is_back_to_back) ==
    LET first_half_value == _get_stat_value(live_stats, prop_type)
        first_half_minutes == live_stats.minutes_float
        shooting_metrics == _calculate_shooting_metrics(live_stats)
        assist_to_turnover == _calculate_assist_to_turnover(live_stats)
        utilization_rate == _calculate_utilization_rate(live_stats, team_stats)
        pace_factor == _calculate_pace_factor(game_data, 24)
        foul_trouble == _detect_foul_trouble(live_stats.fouls, first_half_minutes)
        blowout_warning == _detect_blowout(score_differential(game_data))
        fatigue_factor == _get_fatigue_factor(is_back_to_back)
        opponent_def_rank == _get_opponent_def_rank_for_stat(opp_ratings, prop_type)
        hist == HistoricalFor(season_stats, prop_type)
        minutes_projection ==
            _calculate_minutes_projection(first_half_minutes, foul_trouble,
                                          blowout_warning, live_stats.starter)
        projected_second_half ==
            _calculate_second_half_projection(first_half_value, first_half_minutes,
                minutes_projection, pace_factor, utilization_rate, fatigue_factor,
                hist[2], blowout_warning, shooting_metrics, live_stats.plus_minus,
                opponent_def_rank, prop_type, live_stats.fg_attempted,
                live_stats.ft_attempted, score_differential(game_data))
        projected_final == ProjectedFinal(first_half_value, projected_second_half)
        cr == _calculate_confidence_score(projected_final, prop_line, first_half_value, 50,
                  shooting_metrics, foul_trouble, blowout_warning, utilization_rate,
                  live_stats.plus_minus, opponent_def_rank, assist_to_turnover)
    IN  [ player_id |-> live_stats.player_id,
          team_abbreviation |-> live_stats.team_abbreviation,
          prop_type |-> prop_type,
          prop_line |-> prop_line,
          first_half_value |-> first_half_value,
          first_half_minutes |-> first_half_minutes,
          projected_second_half |-> Round1(projected_second_half),
          projected_final |-> Round1(projected_final),
          confidence_score |-> cr[1] * Scale,
          recommendation |-> cr[2],
          first_half_progress |->
              IF prop_line > 0 THEN DivScaled(first_half_value * 100, prop_line) ELSE 0,
          foul_trouble |-> foul_trouble,
          blowout_warning |-> blowout_warning,
          pace_factor |-> Round2(pace_factor),
          utilization_rate |-> Round1(utilization_rate),
          fatigue_factor |-> fatigue_factor,
          minutes_projection |-> Round1(minutes_projection),
          ts_pct |-> shooting_metrics.ts_pct,
          assist_to_turnover |-> assist_to_turnover,
          opponent_def_rank |-> opponent_def_rank,
          opponent_def_rating |-> opp_ratings.def_rating,
          team_off_rating |-> IF team_ratings = <<>> THEN <<>> ELSE <<team_ratings[1].off_rating>>,
          season_average |-> RoundOpt(hist[1]),
          second_half_historical_avg |-> RoundOpt(hist[2]),
          plus_minus |-> live_stats.plus_minus ]

\* lines 922-972 of analyze_game_totals: league_avg_pace_comparison in milli-units
PaceComparison(game_data) == (total_score(game_data) * 48 * Scale) \div (24 * LEAGUE_AVG_TOTAL)

ClampTotalConfidence(c) == Max(0, Min(100, c))

BasicTotalConfidence(cmp, blowout_risk) ==
    ClampTotalConfidence(
        60 + (IF 950 <= cmp /\ cmp <= 1050 THEN 15
              ELSE IF 900 <= cmp /\ cmp <= 1100 THEN 8
              ELSE 0 - 10)
           + (IF blowout_risk THEN 0 - 15 ELSE 0))

analyze_game_totals(game_data, home_ratings, away_ratings) ==
    LET first_half_total == total_score(game_data)
        cmp == PaceComparison(game_data)
        blowout_risk == _detect_blowout(score_differential(game_data))
        pace_sustainability ==
            IF cmp >= 1200 THEN 900
            ELSE IF cmp >= 1100 THEN 930
            ELSE IF cmp <= 850 THEN 1050
            ELSE PACE_SUSTAINABILITY
        base == first_half_total * pace_sustainability
        projected_second_half_total == IF blowout_risk THEN MulM(base, 920) ELSE base
        projected_q3_total == MulM(projected_second_half_total \div 2, HT_Q3_PACE_FACTOR)
    IN  [ game_id |-> game_data.game_id,
          first_half_total |-> first_half_total,
          score_differential |-> score_differential(game_data),
          pace_rating |-> IF cmp >= 1150 THEN "very_fast"
                          ELSE IF cmp >= 1050 THEN "fast"
                          ELSE IF cmp >= 950 THEN "average"
                          ELSE "slow",
          league_avg_pace_comparison |-> Round2(cmp),
          projected_second_half_total |-> Round1(projected_second_half_total),
          projected_final_total |-> Round1(first_half_total * Scale + projected_second_half_total),
          projected_q3_total |-> Round1(projected_q3_total),
          projected_q4_total |-> Round1(projected_second_half_total - projected_q3_total),
          total_confidence |-> BasicTotalConfidence(cmp, blowout_risk) * Scale,
          blowout_risk |-> blowout_risk,
          pace_sustainability |-> pace_sustainability,
          home_off_rating |-> home_ratings.off_rating,
          home_def_rating |-> home_ratings.def_rating,
          away_off_rating |-> away_ratings.off_rating,
          away_def_rating |-> away_ratings.def_rating ]

(***************************************************************************)
(* game_totals_engine.py: the confidences and the over/under classifier    *)
(***************************************************************************)
\* BLOWOUT_THRESHOLD of game_totals_engine.py
GT_BLOWOUT_THRESHOLD == 20
CLOSE_GAME_THRESHOLD == 8
\* _analyze_star_players keeps player_usage[:3] of each team
StarsPerTeam == 3

shooting_variance_levels == {"extreme_hot", "hot", "normal", "cold", "extreme_cold"}

\* max(lo, min(hi, x))
Clamp(lo, hi, x) == Max(lo, Min(hi, x))

\* a game clock: m minutes s seconds left in the quarter, written "M:SS"
\* (fmt "colon") or "PTmmMss.00S" (fmt "iso"), or the empty string (fmt "empty")
Clock(fmt, m, s) == [fmt |-> fmt, m |-> m, s |-> s]

\* minutes left in the quarter as _elapsed_minutes reads them off the clock
\* (lines 252-263), in milli-minutes: "M:SS" gives m + s/60; the ISO form has no
\* colon, so "PT", "M" and "S" are deleted and the digits left, mmss.00, are
\* divided by 60; an empty clock leaves the 12.0 of line 252
RemainingInQuarter(clock) ==
    IF clock.fmt = "colon" THEN clock.m * Scale + (clock.s * Scale) \div 60
    ELSE IF clock.fmt = "iso" THEN ((100 * clock.m + clock.s) * Scale) \div 60
    ELSE 12 * Scale

\* lines 241-266, in milli-minutes
_elapsed_minutes(period, clock) ==
    LET completed_quarters == Max(period - 1, 0)
        elapsed == completed_quarters * 12 * Scale + (12 * Scale - RemainingInQuarter(clock))
    IN  Max(elapsed, Scale)

\* step 4 of analyze (lines 312-314): the game flow assessment
GameFlow(game_data) ==
    [ blowout_risk |-> Abs(score_differential(game_data)) >= GT_BLOWOUT_THRESHOLD,
      is_close |-> Abs(score_differential(game_data)) <= CLOSE_GAME_THRESHOLD ]

\* variant: the regression weight doubled
TotalsWeightsRegression10 ==
    [ pace_component |-> 30, shooting_component |-> 25, star_utilization |-> 20,
      game_flow |-> 10, team_ratings |-> 10, regression |-> 10 ]

\* TOTALS_WEIGHTS, in hundredths
TOTALS_WEIGHTS ==
    [ pace_component |-> 30, shooting_component |-> 25, star_utilization |-> 20,
      game_flow |-> 10, team_ratings |-> 10, regression |-> 5 ]

\* the weighted combination of analyze, lines 354-364; remaining holds the six
\* per-component remaining-game projections (milli-points)
WeightedCombination(current_total, remaining) ==
    LET projected_remaining ==
            FloorDiv(TOTALS_WEIGHTS["pace_component"] * remaining.pace_projected_remaining +
                     TOTALS_WEIGHTS["shooting_component"] * remaining.shooting_projected_remaining +
                     TOTALS_WEIGHTS["star_utilization"] * remaining.star_projected_remaining +
                     TOTALS_WEIGHTS["game_flow"] * remaining.game_flow_projected_remaining +
                     TOTALS_WEIGHTS["team_ratings"] * remaining.ratings_projected_remaining +
                     TOTALS_WEIGHTS["regression"] * remaining.regression_projected_remaining,
                     100)
    IN  [ projected_remaining |-> projected_remaining,
          projected_final |-> current_total + projected_remaining ]

\* LEAGUE_AVG_PPP 1.14 and the Q3/Q4 pace factors, in milli-units
LEAGUE_AVG_PPP == 1140
Q3_PACE_FACTOR == 910
Q4_CLOSE_FACTOR == 1060
Q4_MODERATE_FACTOR == 980
Q4_BLOWOUT_FACTOR == 880
MODERATE_LEAD_THRESHOLD == 15

\* a snapshot as analyze reads it: period, game clock, scores
Snapshot(period, clock, hs, as) ==
    [period |-> period, game_clock |-> clock, home_score |-> hs, away_score |-> as]

\* the fields of PaceAnalysis the projection reads (lines 435-448, 473-480);
\* possessions and paces in milli-units
_analyze_pace(home_agg, away_agg, home_ratings, away_ratings) ==
    [ first_half_possessions_est |->
          Round1((home_agg.estimated_possessions + away_agg.estimated_possessions) \div 2),
      matchup_expected_pace |-> Round1((home_ratings.pace + away_ratings.pace) \div 2) ]

\* lines 487-512; minutes in milli-minutes, the result in milli-points
_pace_projection(pace, home_agg, away_agg, remaining_min, elapsed_min) ==
    LET live_ppp == DivScaled((home_agg.total_points + away_agg.total_points) * Scale,
                              Max(pace.first_half_possessions_est, Scale))
        poss_per_min == DivScaled(pace.first_half_possessions_est, Max(elapsed_min, Scale))
        expected_poss_per_min == pace.matchup_expected_pace \div 48
        regressed_ppm == MulBig((poss_per_min * 70 + expected_poss_per_min * 30) \div 100, 970)
        remaining_poss == MulBig(regressed_ppm, remaining_min)
        regressed_ppp == (live_ppp * 75 + LEAGUE_AVG_PPP * 25) \div 100
    IN  MulBig(remaining_poss, regressed_ppp) * 2

\* lines 609-625; a shooting profile gives shooting_regression_factor
\* (milli-units) and live_fg3_rate (milli-percent)
_shooting_projection(home_s, away_s, scoring_rate, remaining_min) ==
    LET avg_regression ==
            (home_s.shooting_regression_factor + away_s.shooting_regression_factor) \div 2
        adjusted == MulBig(MulBig(MulBig(scoring_rate, remaining_min), 970), avg_regression)
        avg_fg3_rate == (home_s.live_fg3_rate + away_s.live_fg3_rate) \div 2
    IN  IF avg_fg3_rate > 42 * Scale THEN MulBig(adjusted, 1020)
        ELSE IF avg_fg3_rate < 30 * Scale THEN MulBig(adjusted, 980)
        ELSE adjusted

\* one star of _analyze_star_players, lines 659-735: p is the player's row,
\* season_ppg <<>> for None or <<points per game>>
StarImpact(p, season_ppg, game_data, remaining_min) ==
    LET foul_trouble == p.fouls >= FOUL_TROUBLE_THRESHOLD
        blowout == Abs(score_differential(game_data)) >= GT_BLOWOUT_THRESHOLD
        has_ppg == season_ppg # <<>> /\ season_ppg # <<0>>
        \* live_ppm / max(season_ppm, 0.01) against 1.25 and 0.75, cross-multiplied
        season_ppm == IF has_ppg THEN Max(season_ppg[1] \div 34, 10) ELSE 10
        live_x == p.points * Scale * Scale
        base_x == season_ppm * Max(p.minutes_float, Scale)
        hot_cold == IF has_ppg /\ p.minutes_float >= 8 * Scale
                    THEN IF live_x * 4 > 5 * base_x THEN "hot"
                         ELSE IF live_x * 4 < 3 * base_x THEN "cold"
                         ELSE "normal"
                    ELSE "normal"
        base_remaining_mins ==
            LET b == Min(remaining_min, 24 * Scale)
            IN  IF foul_trouble THEN (b * 75) \div 100
                ELSE IF blowout THEN (IF p.starter THEN (b * 70) \div 100 ELSE (b * 115) \div 100)
                ELSE b
        projected_2h_mins == Min(base_remaining_mins, remaining_min)
        live_ppm == IF p.minutes_float > 0
                    THEN DivScaled(p.points * Scale, p.minutes_float) ELSE 0
        regressed_ppm == IF has_ppg THEN (live_ppm * 60 + (season_ppg[1] \div 34) * 40) \div 100
                         ELSE (live_ppm * 85) \div 100
        projected_2h_pts == IF p.minutes_float > 0 THEN MulBig(regressed_ppm, projected_2h_mins)
                            ELSE 0
        baseline_2h_pts == IF has_ppg THEN season_ppg[1] \div 2 ELSE projected_2h_pts
    IN  [ player_id |-> p.player_id, foul_trouble |-> foul_trouble,
          hot_cold_indicator |-> hot_cold,
          projected_2h_points |-> Round1(projected_2h_pts),
          impact_on_team_total |-> Round1(projected_2h_pts - baseline_2h_pts) ]

\* how many items of the sequence satisfy the test given as a sequence of booleans
CountTrue(flags) == Cardinality({i \in DOMAIN flags : flags[i]})

\* lines 744-766
_star_utilization_projection(stars, scoring_rate, remaining_min) ==
    LET base == MulBig(MulBig(scoring_rate, remaining_min), 950)
        total_impact == SumSeq([i \in DOMAIN stars |-> stars[i].impact_on_team_total])
        fouled == CountTrue([i \in DOMAIN stars |-> stars[i].foul_trouble])
        hot_count == CountTrue([i \in DOMAIN stars |-> stars[i].hot_cold_indicator = "hot"])
        cold_count == CountTrue([i \in DOMAIN stars |-> stars[i].hot_cold_indicator = "cold"])
        adjusted == base - fouled * 3500 + hot_count * 1500 - cold_count * Scale
    IN  IF stars = <<>> THEN base
        ELSE Max(adjusted + FloorDiv(total_impact, 2),
                 MulBig(MulBig(scoring_rate, remaining_min), 700))

\* lines 771-784
_game_flow_projection(game_data, scoring_rate, remaining_min) ==
    LET diff == Abs(score_differential(game_data))
        base_remaining == MulBig(scoring_rate, remaining_min)
    IN  IF diff >= GT_BLOWOUT_THRESHOLD THEN MulBig(base_remaining, 850)
        ELSE IF diff <= CLOSE_GAME_THRESHOLD THEN MulBig(base_remaining, 1030)
        ELSE IF diff <= MODERATE_LEAD_THRESHOLD THEN MulBig(base_remaining, 970)
        ELSE MulBig(base_remaining, 920)

\* lines 789-805, both ratings present
_team_ratings_projection(home_ratings, away_ratings, remaining_min) ==
    LET avg_pace == (home_ratings.pace + away_ratings.pace) \div 2
        remaining_fraction == DivScaled(remaining_min, 48 * Scale)
        expected(r) == MulBig(MulBig(avg_pace, r.off_rating) \div 100, remaining_fraction)
        vs_def(pts, d) == DivScaled(pts * 114, Max(d.def_rating, 80 * Scale))
    IN  vs_def(expected(home_ratings), away_ratings) + vs_def(expected(away_ratings), home_ratings)

\* lines 346-352: the remaining portion of the season average total
RegressionRemaining(home_ratings, away_ratings, remaining_min) ==
    LET expected_pace == (home_ratings.pace + away_ratings.pace) \div 2
        avg_off_rtg == (home_ratings.off_rating + away_ratings.off_rating) \div 2
        season_avg_total == MulBig(expected_pace, avg_off_rtg \div 100) * 2
    IN  MulBig(season_avg_total, DivScaled(remaining_min, 48 * Scale))

\* variant: the whole remaining projection is put into the third quarter
CombinedQuartersAllQ3(projected_remaining, game_data, elapsed_min) ==
    [q3 |-> projected_remaining, q4 |-> 0]

\* _project_quarters, lines 815-843: the Q3 and Q4 portions of both teams together
CombinedQuarters(projected_remaining, game_data, elapsed_min) ==
    LET diff == Abs(score_differential(game_data))
        q4_factor == IF diff >= GT_BLOWOUT_THRESHOLD THEN Q4_BLOWOUT_FACTOR
                     ELSE IF diff <= CLOSE_GAME_THRESHOLD THEN Q4_CLOSE_FACTOR
                     ELSE Q4_MODERATE_FACTOR
        q3_share == DivScaled(Q3_PACE_FACTOR, Q3_PACE_FACTOR + q4_factor)
        q3_remaining_frac == Max(0, FloorDiv((36 * Scale - elapsed_min) * Scale, 12 * Scale))
        q3 == IF game_data.period >= 4 THEN 0
              ELSE IF game_data.period >= 3
              THEN MulBig(projected_remaining, MulBig(q3_remaining_frac, q3_share))
              ELSE MulBig(projected_remaining, q3_share)
    IN  [q3 |-> q3, q4 |-> projected_remaining - q3]

\* _project_quarters, lines 845-889, both ratings present; the values before
\* rounding and the TeamQuarterProjection fields
_project_quarters(projected_remaining, game_data, home_ratings, away_ratings, elapsed_min) ==
    LET combined == CombinedQuarters(projected_remaining, game_data, elapsed_min)
        home_share == DivScaled(home_ratings.off_rating,
                                Max(home_ratings.off_rating + away_ratings.off_rating, Scale))
        away_share == Scale - home_share
        home_q3 == MulBig(combined.q3, home_share)
        home_q4 == MulBig(combined.q4, home_share)
        away_q3 == MulBig(combined.q3, away_share)
        away_q4 == MulBig(combined.q4, away_share)
        home_proj_final == game_data.home_score * Scale + home_q3 + home_q4
        away_proj_final == game_data.away_score * Scale + away_q3 + away_q4
    IN  [ home_q3 |-> home_q3, home_q4 |-> home_q4, away_q3 |-> away_q3, away_q4 |-> away_q4,
          home_proj_final |-> home_proj_final, away_proj_final |-> away_proj_final,
          home |-> [ q3_projected |-> Round1(home_q3), q4_projected |-> Round1(home_q4),
                     projected_final_score |-> Round1(home_proj_final) ],
          away |-> [ q3_projected |-> Round1(away_q3), q4_projected |-> Round1(away_q4),
                     projected_final_score |-> Round1(away_proj_final) ] ]

\* analyze, lines 287-373 and 400-412, both ratings present: stars holds
\* <<row, season_ppg>> for each star, home_s and away_s the shooting profiles
TotalsProjection(game_data, home_agg, away_agg, home_ratings, away_ratings, home_s, away_s, stars) ==
    LET elapsed_min == _elapsed_minutes(game_data.period, game_data.game_clock)
        remaining_min == Max(48 * Scale - elapsed_min, 0)
        pace == _analyze_pace(home_agg, away_agg, home_ratings, away_ratings)
        star_impacts == [i \in DOMAIN stars |->
                            StarImpact(stars[i][1], stars[i][2], game_data, remaining_min)]
        current_total == total_score(game_data)
        scoring_rate == DivScaled(current_total * Scale, Max(elapsed_min, Scale))
        remaining ==
            [ pace_projected_remaining |->
                  _pace_projection(pace, home_agg, away_agg, remaining_min, elapsed_min),
              shooting_projected_remaining |->
                  _shooting_projection(home_s, away_s, scoring_rate, remaining_min),
              star_projected_remaining |->
                  _star_utilization_projection(star_impacts, scoring_rate, remaining_min),
              game_flow_projected_remaining |->
                  _game_flow_projection(game_data, scoring_rate, remaining_min),
              ratings_projected_remaining |->
                  _team_ratings_projection(home_ratings, away_ratings, remaining_min),
              regression_projected_remaining |->
                  RegressionRemaining(home_ratings, away_ratings, remaining_min) ]
        combination == WeightedCombination(current_total * Scale, remaining)
        quarters == _project_quarters(combination.projected_remaining, game_data,
                                      home_ratings, away_ratings, elapsed_min)
    IN  [ elapsed_min |-> elapsed_min, remaining_min |-> remaining_min,
          current_total |-> current_total * Scale,
          star_players |-> star_impacts,
          projected_remaining |-> combination.projected_remaining,
          projected_final |-> combination.projected_final,
          quarters |-> quarters,
          projected_q3_total |-> Round1(quarters.home.q3_projected + quarters.away.q3_projected),
          projected_q4_total |-> Round1(quarters.home.q4_projected + quarters.away.q4_projected),
          projected_second_half_total |-> Round1(combination.projected_remaining),
          projected_final_total |-> Round1(combination.projected_final) ]

\* pace_deviation in milli-percent; home_level and away_level are the teams'
\* shooting_variance_level; foul_trouble_count = sum(1 for s in stars if s.foul_trouble);
\* the result in whole points
_calculate_total_confidence(pace_deviation, home_level, away_level, foul_trouble_count, blowout_risk, is_close) ==
    LET level(l) == IF l = "normal" THEN 5
                    ELSE IF l \in {"extreme_hot", "extreme_cold"} THEN 0 - 6 ELSE 0
        confidence ==
            50 + (IF Abs(pace_deviation) < 5 * Scale THEN 12
                  ELSE IF Abs(pace_deviation) < 10 * Scale THEN 6 ELSE 0 - 8)
               + level(home_level) + level(away_level)
               - (IF foul_trouble_count > 0 THEN foul_trouble_count * 4 ELSE 0)
               - (IF blowout_risk THEN 12 ELSE 0)
               - (IF is_close THEN 3 ELSE 0)
    IN  Clamp(15, 95, confidence)

\* round(season_avg_total * 2) / 2
RoundToHalf(x) == FloorDiv(2 * x + Scale \div 2, Scale) * (Scale \div 2)

\* variant: an edge of exactly 4 or -4 already counts as strong
OverUnderRecommendationFrom4(edge, confidence) ==
    IF edge >= 4 * Scale /\ confidence >= 65 THEN "strong_over"
    ELSE IF edge > 1500 /\ confidence >= 50 THEN "lean_over"
    ELSE IF edge <= 0 - 4 * Scale /\ confidence >= 65 THEN "strong_under"
    ELSE IF edge < 0 - 1500 /\ confidence >= 50 THEN "lean_under"
    ELSE "neutral"

\* lines 1010-1020: edge in milli-points, confidence in whole points
OverUnderRecommendation(edge, confidence) ==
    IF edge > 4 * Scale /\ confidence >= 65 THEN "strong_over"
    ELSE IF edge > 1500 /\ confidence >= 50 THEN "lean_over"
    ELSE IF edge < 0 - 4 * Scale /\ confidence >= 65 THEN "strong_under"
    ELSE IF edge < 0 - 1500 /\ confidence >= 50 THEN "lean_under"
    ELSE "neutral"

\* reference_line is <<>> for None; quantities in milli-points
_calculate_over_under(projected_total, variance, reference_line, season_avg_total, home_level, away_level, pace_deviation) ==
    LET line == IF reference_line # <<>> /\ reference_line # <<0>>
                THEN reference_line[1] ELSE RoundToHalf(season_avg_total)
        edge == projected_total - line
        normal(l) == IF l = "normal" THEN 5 ELSE 0
        confidence ==
            Clamp(20, 90,
                  50 + (IF Abs(pace_deviation) < 5 * Scale THEN 10 ELSE 0)
                     + normal(home_level) + normal(away_level)
                     + (IF Abs(edge) > 4 * Scale THEN 10
                        ELSE IF Abs(edge) > 2 * Scale THEN 5 ELSE 0))
    IN  [ projected_total |-> Round1(projected_total),
          projected_range_low |-> Round1(projected_total - variance),
          projected_range_high |-> Round1(projected_total + variance),
          reference_line |-> line,
          edge |-> Round1(edge),
          recommendation |-> OverUnderRecommendation(edge, confidence),
          confidence |-> confidence * Scale ]

\* lines 896-897 and 935-941 of _predict_spread: the ratings are <<>> for None
_predict_spread(game_data, home_ratings, away_ratings) ==
    LET current_spread == game_data.home_score - game_data.away_score
        spread_conf == 50 + (IF Abs(current_spread) > 15 THEN 15 ELSE 0)
                          + (IF home_ratings # <<>> /\ away_ratings # <<>> THEN 10 ELSE 0)
    IN  [ current_spread |-> current_spread,
          home_lead |-> current_spread > 0,
          spread_confidence |-> Clamp(20, 85, spread_conf) * Scale ]

(***************************************************************************)
(* Collaborators of the halftime engine                                    *)
(***************************************************************************)
\* teams in the league tables of stats.nba.com
NTeams == 30
Teams == 1..NTeams
TeamAbbr(t) == IF t = 1 THEN "T1" ELSE IF t = 2 THEN "T2" ELSE "T3"

\* the 'Advanced' league table: one row per team (milli-units)
AdvancedRow(t) ==
    [ OFF_RATING |-> (108 + ((t * 7) % 12)) * Scale,
      DEF_RATING |-> (108 + ((t * 5) % 11)) * Scale,
      PACE |-> (96 + ((t * 3) % 8)) * Scale ]

\* the 'Opponent' league table: per-game opponent totals, distinct per team
OpponentRow(t) ==
    [ OPP_PTS |-> 1050 + ((t * 11) % NTeams), OPP_REB |-> 400 + ((t * 13) % NTeams),
      OPP_AST |-> 230 + ((t * 19) % NTeams), OPP_FG3M |-> 110 + ((t * 17) % NTeams) ]

\* position of team t after sort_values(col, ascending=True), counted from 1
RankAscending(col, t) ==
    1 + Cardinality({u \in Teams : OpponentRow(u)[col] < OpponentRow(t)[col]})

\* columns that def_df_sorted carries at line 433: each sort_values call of
\* lines 421-430 starts again from def_df, so only the last added column remains
SortedFrameColumns == {"3PM_RANK"}

RankFromFrame(column, sort_key, t) ==
    IF column \in SortedFrameColumns THEN RankAscending(sort_key, t) ELSE 15

\* lines 397-403
WithAdvanced(ratings, team_id) ==
    [ ratings EXCEPT !.off_rating = AdvancedRow(team_id).OFF_RATING,
                     !.def_rating = AdvancedRow(team_id).DEF_RATING,
                     !.pace = AdvancedRow(team_id).PACE ]

\* lines 418-438
WithOpponent(ratings, team_id) ==
    [ ratings EXCEPT !.def_rank_pts = RankFromFrame("PTS_RANK", "OPP_PTS", team_id),
                     !.def_rank_reb = RankFromFrame("REB_RANK", "OPP_REB", team_id),
                     !.def_rank_ast = RankFromFrame("AST_RANK", "OPP_AST", team_id),
                     !.def_rank_3pm = RankFromFrame("3PM_RANK", "OPP_FG3M", team_id) ]

\* what a request to stats.nba.com raises in each upstream condition
\* ("" when it answers)
UpstreamStatuses == {"ok", "timeout", "error"}
Raised(status) ==
    IF status = "timeout" THEN "TimeoutError"
    ELSE IF status = "error" THEN "Exception"
    ELSE ""

\* variant: only the timeout is handled
TimeoutHandlerOnly == {"TimeoutError"}

\* the except clauses of _get_team_ratings, lines 440-443; every exception
\* class involved derives from Exception
RatingsHandlers == {"TimeoutError", "Exception"}
Catches(handlers, exc) == exc \in handlers \/ "Exception" \in handlers

\* game logs of stats.nba.com: column means per player (milli-units); player 2
\* has an empty log
GameLogMeans(player_id) ==
    IF player_id = 2 THEN <<>>
    ELSE <<[ pts |-> (8 + 3 * player_id) * Scale + 300, reb |-> (2 + player_id) * Scale + 400,
             ast |-> IF player_id = 4 THEN 0 ELSE 2 * Scale + 500 ]>>

\* live_data_client.get_player_season_stats: None (<<>>) on an empty log or
\* on any exception
get_player_season_stats(status, player_id) ==
    IF Raised(status) # "" THEN <<>>
    ELSE IF GameLogMeans(player_id) = <<>> THEN <<>>
    ELSE <<SeasonStatsOf(GameLogMeans(player_id)[1])>>

\* teams with a game on the previous day
PlayedYesterday == {1}

\* live_data_client.is_back_to_back: False on any exception
is_back_to_back(status, team_id) ==
    IF Raised(status) # "" THEN FALSE ELSE team_id \in PlayedYesterday

(***************************************************************************)
(* get_halftime_analysis: data a request works on                          *)
(***************************************************************************)
default_prop_types == <<"points", "rebounds", "assists">>

\* a LiveGameData snapshot
LiveGame(id, home, away, hs, as) ==
    [ game_id |-> id, home_team_id |-> home, away_team_id |-> away,
      home_team_abbr |-> TeamAbbr(home), away_team_abbr |-> TeamAbbr(away),
      home_score |-> hs, away_score |-> as ]

\* next((g for g in games if g.game_id == game_id), None)
RECURSIVE FindGame(_, _)
FindGame(games, game_id) ==
    IF games = <<>> THEN <<>>
    ELSE IF Head(games).game_id = game_id THEN <<Head(games)>>
    ELSE FindGame(Tail(games), game_id)

\* what get_live_box_score returns when the request fails
EmptyBox == [home |-> <<>>, away |-> <<>>]

\* all_players, line 1025
AllPlayers(box) == box.home \o box.away

\* the k-th pass of the nested loops of lines 1030-1046
PairPlayer(box, k) == AllPlayers(box)[((k - 1) \div 3) + 1]
PairType(k) == default_prop_types[((k - 1) % 3) + 1]
PairCount(box) == 3 * Len(AllPlayers(box))

PlayerIds == 1..6
PropKeys == PlayerIds \X Range(default_prop_types)
\* prop_lines=None
NoLines == [key \in PropKeys |-> <<>>]

\* lines 1047-1051
PropLineFor(prop_lines, player, prop_type) ==
    IF prop_lines[<<player.player_id, prop_type>>] # <<>>
    THEN prop_lines[<<player.player_id, prop_type>>][1]
    ELSE _get_stat_value(player, prop_type) * 2

\* variant: players are analysed whatever their minutes
AnalysedAnyMinutes(box, prop_lines, k) ==
    ~(PropLineFor(prop_lines, PairPlayer(box, k), PairType(k)) <= 0)

\* the pass reaches analyze_halftime_player (lines 1031 and 1053)
Analysed(box, prop_lines, k) ==
    /\ ~(PairPlayer(box, k).minutes_float < 5 * Scale)
    /\ ~(PropLineFor(prop_lines, PairPlayer(box, k), PairType(k)) <= 0)

\* the first pass from k on that is analysed, PairCount + 1 if none
RECURSIVE NextWork(_, _, _)
NextWork(box, prop_lines, k) ==
    IF k > PairCount(box) THEN PairCount(box) + 1
    ELSE IF Analysed(box, prop_lines, k) THEN k
    ELSE NextWork(box, prop_lines, k + 1)

\* variant: the confidence threshold is 50
QualifiesFrom50(analysis) ==
    /\ analysis.confidence_score >= 50 * Scale
    /\ analysis.recommendation \in {"strong_bet", "bet", "lean"}

\* lines 1075-1107
Qualifies(analysis) ==
    /\ analysis.confidence_score >= 60 * Scale
    /\ analysis.recommendation \in {"strong_bet", "bet", "lean"}

SuggestionOf(analysis) ==
    [ player_id |-> analysis.player_id,
      team_abbreviation |-> analysis.team_abbreviation,
      prop_type |-> analysis.prop_type,
      prop_line |-> analysis.prop_line,
      current_value |-> analysis.first_half_value,
      projected_final |-> analysis.projected_final,
      confidence_score |-> analysis.confidence_score,
      recommendation |-> analysis.recommendation,
      edge |-> Round1(analysis.projected_final - analysis.prop_line),
      risk_level |-> IF analysis.confidence_score >= 75 * Scale THEN "low"
                     ELSE IF analysis.confidence_score >= 65 * Scale THEN "medium"
                     ELSE "high",
      key_factors |->
          (IF analysis.first_half_progress >= 50 * Scale THEN {"Strong 1H progress"} ELSE {})
          \cup (IF analysis.ts_pct >= 60 * Scale THEN {"Hot shooting"} ELSE {})
          \cup (IF analysis.plus_minus >= 8 THEN {"plus/minus"} ELSE {})
          \cup (IF analysis.opponent_def_rank >= 25 THEN {"Weak opponent defense"} ELSE {})
          \cup (IF analysis.pace_factor >= 1100 THEN {"Fast pace game"} ELSE {})
          \cup (IF analysis.foul_trouble THEN {"Warning: Foul trouble"} ELSE {})
          \cup (IF analysis.blowout_warning THEN {"Warning: Blowout risk"} ELSE {}) ]

\* lines 1073-1109: filter, then suggestions.sort(key=confidence_score, reverse=True)
SuggestionsOf(player_analyses) ==
    LET keep == [i \in DOMAIN player_analyses |-> Qualifies(player_analyses[i])]
        picked == SelectIdx(player_analyses, keep, 1)
    IN  SortDesc([i \in DOMAIN picked |-> SuggestionOf(picked[i])])

(***************************************************************************)
(* get_halftime_analysis as a process: one step per await                  *)
(***************************************************************************)
IdleCall ==
    [ pc |-> "idle", game_id |-> 0, prop_lines |-> NoLines,
      games |-> <<>>, game_data |-> <<>>, box_score |-> EmptyBox,
      rq |-> "home", ratings |-> <<>>, advanced |-> "",
      home_ratings |-> <<>>, away_ratings |-> <<>>, game_total_analysis |-> <<>>,
      home_b2b |-> FALSE, away_b2b |-> FALSE, k |-> 0,
      player_analyses |-> <<>>, suggestions |-> <<>>,
      status |-> "none",
      \* history: upstream conditions met, and what each _get_team_ratings call did
      nba_seen |-> {}, season_seen |-> <<>>, ratings_log |-> <<>> ]

Active(c) == call[c].pc \notin {"idle", "done"}

\* the API handler awaits halftime_engine.get_halftime_analysis(game_id)
Start(c, ids, line_sets) ==
    /\ call[c].pc = "idle"
    /\ \E id \in ids, pl \in line_sets :
         call' = [call EXCEPT ![c] = [@ EXCEPT !.pc = "games", !.game_id = id,
                                                !.prop_lines = pl, !.nba_seen = {nba}]]
    /\ UNCHANGED <<nba, outages, _team_ratings_cache, cache_writer>>
    /\ UNCHANGED <<propVars, totalsVars>>

\* lines 1006-1010; the ValueError becomes the handler's 404
FetchGames(c, scoreboards) ==
    /\ call[c].pc = "games"
    /\ \E games \in scoreboards :
         LET game_data == FindGame(games, call[c].game_id)
         IN  call' = [call EXCEPT ![c] =
                 IF game_data = <<>>
                 THEN [@ EXCEPT !.pc = "done", !.games = games, !.status = "not_found"]
                 ELSE [@ EXCEPT !.pc = "box", !.games = games, !.game_data = game_data]]
    /\ UNCHANGED <<nba, outages, _team_ratings_cache, cache_writer>>
    /\ UNCHANGED <<propVars, totalsVars>>

\* line 1012
FetchBox(c, boxes) ==
    /\ call[c].pc = "box"
    /\ \E box \in boxes[call[c].game_id] :
         call' = [call EXCEPT ![c] = [@ EXCEPT !.pc = "ratings", !.rq = "home",
                                                !.box_score = box]]
    /\ UNCHANGED <<nba, outages, _team_ratings_cache, cache_writer>>
    /\ UNCHANGED <<propVars, totalsVars>>

\* the team the pending _get_team_ratings call of lines 1015-1016 is for
RatingsTeam(rec) ==
    IF rec.rq = "home" THEN rec.game_data[1].home_team_id ELSE rec.game_data[1].away_team_id

\* the caller resumes with the value _get_team_ratings returned (lines 1015-1021)
Returned(rec, r, entry) ==
    LET logged == [rec EXCEPT !.ratings = <<>>, !.advanced = "",
                              !.ratings_log = Append(@, entry)]
    IN  IF rec.rq = "home"
        THEN [logged EXCEPT !.home_ratings = <<r>>, !.rq = "away", !.pc = "ratings"]
        ELSE [logged EXCEPT !.away_ratings = <<r>>, !.rq = "done", !.pc = "b2b_home",
                            !.game_total_analysis =
                                <<analyze_game_totals(rec.game_data[1], rec.home_ratings[1], r)>>]

\* an exception leaves get_halftime_analysis; the handler answers 500
Failed(rec) == [rec EXCEPT !.pc = "done", !.status = "error"]

\* _get_team_ratings, lines 373-377
RatingsCheck(c) ==
    /\ call[c].pc = "ratings"
    /\ LET t == RatingsTeam(call[c])
       IN  IF _team_ratings_cache[t] # <<>>
           THEN call' = [call EXCEPT ![c] =
                    Returned(@, _team_ratings_cache[t][1],
                             [ team_id |-> t, writer |-> cache_writer[t], advanced |-> "",
                               opponent |-> "", returned |-> _team_ratings_cache[t][1] ])]
           ELSE call' = [call EXCEPT ![c] = [@ EXCEPT !.pc = "advanced",
                                                      !.ratings = <<DefaultRatings(t)>>]]
    /\ UNCHANGED <<nba, outages, _team_ratings_cache, cache_writer>>
    /\ UNCHANGED <<propVars, totalsVars>>

\* _get_team_ratings, lines 385-403, or lines 440-446 when the request raises
FetchAdvanced(c) ==
    /\ call[c].pc = "advanced"
    /\ LET t == RatingsTeam(call[c])
           ratings == call[c].ratings[1]
       IN  IF Raised(nba) = ""
           THEN /\ call' = [call EXCEPT ![c] = [@ EXCEPT !.pc = "opponent", !.advanced = nba,
                                                        !.ratings = <<WithAdvanced(ratings, t)>>]]
                /\ UNCHANGED <<_team_ratings_cache, cache_writer>>
           ELSE IF Catches(RatingsHandlers, Raised(nba))
           THEN /\ _team_ratings_cache' = [_team_ratings_cache EXCEPT ![t] = <<ratings>>]
                /\ cache_writer' = [cache_writer EXCEPT ![t] = c]
                /\ call' = [call EXCEPT ![c] =
                       Returned(@, ratings, [ team_id |-> t, writer |-> c, advanced |-> nba,
                                              opponent |-> "", returned |-> ratings ])]
           ELSE /\ call' = [call EXCEPT ![c] = Failed(@)]
                /\ UNCHANGED <<_team_ratings_cache, cache_writer>>
    /\ UNCHANGED <<nba, outages>>
    /\ UNCHANGED <<propVars, totalsVars>>

\* _get_team_ratings, lines 406-446
FetchOpponent(c) ==
    /\ call[c].pc = "opponent"
    /\ LET t == RatingsTeam(call[c])
           ratings == IF Raised(nba) = "" THEN WithOpponent(call[c].ratings[1], t)
                      ELSE call[c].ratings[1]
       IN  IF Raised(nba) = "" \/ Catches(RatingsHandlers, Raised(nba))
           THEN /\ _team_ratings_cache' = [_team_ratings_cache EXCEPT ![t] = <<ratings>>]
                /\ cache_writer' = [cache_writer EXCEPT ![t] = c]
                /\ call' = [call EXCEPT ![c] =
                       Returned(@, ratings, [ team_id |-> t, writer |-> c,
                                              advanced |-> call[c].advanced,
                                              opponent |-> nba, returned |-> ratings ])]
           ELSE /\ call' = [call EXCEPT ![c] = Failed(@)]
                /\ UNCHANGED <<_team_ratings_cache, cache_writer>>
    /\ UNCHANGED <<nba, outages>>
    /\ UNCHANGED <<propVars, totalsVars>>

\* line 1027
B2BHome(c) ==
    /\ call[c].pc = "b2b_home"
    /\ call' = [call EXCEPT ![c] =
           [@ EXCEPT !.pc = "b2b_away",
                     !.home_b2b = is_back_to_back(nba, call[c].game_data[1].home_team_id)]]
    /\ UNCHANGED <<nba, outages, _team_ratings_cache, cache_writer>>
    /\ UNCHANGED <<propVars, totalsVars>>

\* line 1028, then the loop up to its first analyze_halftime_player call
B2BAway(c) ==
    /\ call[c].pc = "b2b_away"
    /\ LET first == NextWork(call[c].box_score, call[c].prop_lines, 1)
       IN  call' = [call EXCEPT ![c] =
               [@ EXCEPT !.pc = IF first > PairCount(call[c].box_score) THEN "totals"
                                ELSE "players",
                         !.k = first,
                         !.away_b2b = is_back_to_back(nba, call[c].game_data[1].away_team_id)]]
    /\ UNCHANGED <<nba, outages, _team_ratings_cache, cache_writer>>
    /\ UNCHANGED <<propVars, totalsVars>>

\* lines 1034-1067 for pass k: opp_ratings is what _get_team_ratings returns
\* inside analyze_halftime_player, season_stats what get_player_season_stats returns
PairAnalysis(game_data, box, prop_lines, k, home_ratings, away_ratings, opp_ratings, season_stats, home_b2b, away_b2b) ==
    LET player == PairPlayer(box, k)
        prop_type == PairType(k)
        is_home == player.team_abbreviation = game_data.home_team_abbr
        is_b2b == IF is_home THEN home_b2b ELSE away_b2b
        team_stats == IF is_home THEN box.home ELSE box.away
        team_ratings == IF is_home THEN home_ratings ELSE away_ratings
        prop_line == PropLineFor(prop_lines, player, prop_type)
    IN  analyze_halftime_player(player, prop_line, prop_type, game_data, team_stats,
                                opp_ratings, team_ratings, season_stats, is_b2b)

\* opponent_team_id of pass k, lines 1034 and 1039
OpponentOf(game_data, box, k) ==
    IF PairPlayer(box, k).team_abbreviation = game_data.home_team_abbr
    THEN game_data.away_team_id ELSE game_data.home_team_id

\* one analyze_halftime_player call of the loop (lines 1034-1068) and the
\* passes skipped after it; its _get_team_ratings call finds the opponent cached
AnalyzePlayer(c) ==
    /\ call[c].pc = "players"
    /\ LET rec == call[c]
           game_data == rec.game_data[1]
           opponent_team_id == OpponentOf(game_data, rec.box_score, rec.k)
           season_stats ==
               get_player_season_stats(nba, PairPlayer(rec.box_score, rec.k).player_id)
           next == NextWork(rec.box_score, rec.prop_lines, rec.k + 1)
       IN  /\ _team_ratings_cache[opponent_team_id] # <<>>
           /\ call' = [call EXCEPT ![c] =
                  [@ EXCEPT !.player_analyses =
                                Append(@, PairAnalysis(game_data, rec.box_score, rec.prop_lines,
                                              rec.k, rec.home_ratings, rec.away_ratings,
                                              _team_ratings_cache[opponent_team_id][1],
                                              season_stats, rec.home_b2b, rec.away_b2b)),
                            !.season_seen = Append(@, season_stats),
                            !.ratings_log =
                                Append(@, [ team_id |-> opponent_team_id,
                                            writer |-> cache_writer[opponent_team_id],
                                            advanced |-> "", opponent |-> "",
                                            returned |-> _team_ratings_cache[opponent_team_id][1] ]),
                            !.k = next,
                            !.pc = IF next > PairCount(rec.box_score) THEN "totals"
                                   ELSE "players"]]
    /\ UNCHANGED <<nba, outages, _team_ratings_cache, cache_writer>>
    /\ UNCHANGED <<propVars, totalsVars>>

\* lines 1072-1225: the suggestions and the returned dictionary (an exception
\* of the enhanced totals attempt is swallowed at line 1131)
Finish(c) ==
    /\ call[c].pc = "totals"
    /\ call' = [call EXCEPT ![c] =
           [@ EXCEPT !.pc = "done", !.status = "ok",
                     !.suggestions = SuggestionsOf(call[c].player_analyses)]]
    /\ UNCHANGED <<nba, outages, _team_ratings_cache, cache_writer>>
    /\ UNCHANGED <<propVars, totalsVars>>

\* stats.nba.com starts or stops answering
MaxOutages == 1

UpstreamChange ==
    /\ outages < MaxOutages
    /\ \E status \in UpstreamStatuses \ {nba} :
         /\ nba' = status
         /\ call' = [c \in DOMAIN call |->
                        IF Active(c) THEN [call[c] EXCEPT !.nba_seen = @ \cup {status}]
                        ELSE call[c]]
    /\ outages' = outages + 1
    /\ UNCHANGED <<_team_ratings_cache, cache_writer>>
    /\ UNCHANGED <<propVars, totalsVars>>

(***************************************************************************)
(* GameTotalsEngine: the season-stats cache and the lookups of analyze()   *)
(***************************************************************************)
\* analyze() runs looked at
MaxRuns == 2

\* sorted(.., reverse=True) on <<key, item>> pairs: stable
RECURSIVE InsertByKey(_, _)
InsertByKey(sorted, x) ==
    IF sorted = <<>> THEN <<x>>
    ELSE IF sorted[1][1] >= x[1] THEN <<sorted[1]>> \o InsertByKey(Tail(sorted), x)
    ELSE <<x>> \o sorted

RECURSIVE SortedByKey(_)
SortedByKey(pairs) ==
    IF pairs = <<>> THEN <<>>
    ELSE InsertByKey(SortedByKey(SubSeq(pairs, 1, Len(pairs) - 1)), pairs[Len(pairs)])

\* the player ids of the first n pairs
FirstIds(pairs, n) == [i \in 1..Min(n, Len(pairs)) |-> pairs[i][2].player_id]

\* _analyze_team_shooting, lines 552-555: the five players with most minutes
ShootingLookups(players) ==
    FirstIds(SortedByKey([i \in DOMAIN players |-> <<players[i].minutes_float, players[i]>>]), 5)

\* _analyze_star_players, lines 644-678: of the players with at least 3
\* minutes, the three of highest usage (usage orders as the possessions do)
StarLookups(players) ==
    LET played == SelectSeq(players, LAMBDA p : p.minutes_float >= 3 * Scale)
    IN  FirstIds(SortedByKey([i \in DOMAIN played |-> <<Poss100(played[i]), played[i]>>]),
                 StarsPerTeam)

\* the _get_player_season_stats calls of one analyze() run, in order (lines 300-310)
SeasonLookups(box_score) ==
    ShootingLookups(box_score.home) \o ShootingLookups(box_score.away)
        \o StarLookups(box_score.home) \o StarLookups(box_score.away)

\* lines 207-215: the stats dict built from what nba_api gave (None is <<>>);
\* bdl_analytics is None at both places that construct the engine, so the
\* fallback of lines 220-233 does not run
SeasonStatsDict(raw) == IF raw = <<>> THEN <<>> ELSE <<[pts |-> raw[1].avg_points]>>

\* before any GameTotalsEngine is constructed
NoTotalsEngine ==
    [ constructed |-> FALSE,
      _season_stats_cache |-> [p \in PlayerIds |-> <<>>],   \* <<>>: id not in the dict
      pc |-> "idle", pending |-> <<>>,
      \* history: runs started, the ids cached when the current run started, and
      \* every _get_player_season_stats call made
      runs |-> 0, started_with |-> {}, lookups |-> <<>> ]

\* the ids in the dict
CachedIds(cache) == {p \in DOMAIN cache : cache[p] # <<>>}

\* GameTotalsEngine(...), lines 193-197 (api/halftime.py line 318,
\* halftime_engine.py line 1123)
NewGameTotalsEngine ==
    /\ totals_engine.pc = "idle"
    /\ totals_engine.runs < MaxRuns
    /\ totals_engine' = [totals_engine EXCEPT !.constructed = TRUE,
                             !._season_stats_cache = [p \in PlayerIds |-> <<>>]]
    /\ UNCHANGED <<propVars, engineVars>>

\* analyze() is called on the engine and reaches its first await (lines 271-300)
TotalsAnalyze(boxes) ==
    /\ totals_engine.constructed
    /\ totals_engine.pc = "idle"
    /\ totals_engine.runs < MaxRuns
    /\ \E box_score \in boxes :
         totals_engine' = [totals_engine EXCEPT
             !.pc = "lookups", !.pending = SeasonLookups(box_score),
             !.runs = @ + 1,
             !.started_with = CachedIds(totals_engine._season_stats_cache)]
    /\ UNCHANGED <<propVars, engineVars>>

\* one _get_player_season_stats call, lines 199-236
TotalsLookup ==
    /\ totals_engine.pc = "lookups"
    /\ totals_engine.pending # <<>>
    /\ LET player_id == Head(totals_engine.pending)
           cache == totals_engine._season_stats_cache
           hit == player_id \in CachedIds(cache)
           stats == SeasonStatsDict(get_player_season_stats(nba, player_id))
           entry == IF hit THEN cache[player_id][1]
                    ELSE [stats |-> stats, run |-> totals_engine.runs]
       IN  totals_engine' = [totals_engine EXCEPT
               !.pending = Tail(@),
               !._season_stats_cache = [cache EXCEPT ![player_id] = <<entry>>],
               !.lookups = Append(@, [ player_id |-> player_id, run |-> totals_engine.runs,
                                       from_cache |-> hit, stored_in |-> entry.run,
                                       returned |-> entry.stats ])]
    /\ UNCHANGED <<propVars, engineVars>>

\* analyze() returns its projection (lines 312-420)
TotalsReturn ==
    /\ totals_engine.pc = "lookups"
    /\ totals_engine.pending = <<>>
    /\ totals_engine' = [totals_engine EXCEPT !.pc = "idle"]
    /\ UNCHANGED <<propVars, engineVars>>

(***************************************************************************)
(* One request with varied snapshots                                       *)
(***************************************************************************)
\* box-score rows; each list is ordered by points, highest first, and holds
\* only players with minutes (get_live_box_score, lines 274-286)
R1 == Row(1, "T1", 18500, 16, 4, 3, 1, 1, 6, 11, 2, 5, 2, 2, 7, TRUE)
R2 == Row(2, "T1", 12000, 6, 5, 0, 2, 3, 3, 7, 0, 2, 0, 0, 0 - 4, FALSE)
R3 == Row(3, "T1", 4900, 2, 1, 0, 0, 0, 1, 2, 0, 0, 0, 0, 0, FALSE)
R4 == Row(4, "T2", 20000, 22, 2, 6, 0, 2, 8, 12, 3, 5, 3, 4, 0 - 6, TRUE)
R5 == Row(5, "T2", 5000, 0, 1, 1, 1, 0, 0, 3, 0, 1, 0, 0, 2, FALSE)
R6 == Row(6, "T3", 15000, 12, 0, 0, 0, 0, 5, 8, 1, 2, 1, 1, 12, TRUE)

GameIds == {101, 102}

Scoreboards ==
    { <<>>,
      <<LiveGame(101, 1, 2, 55, 52), LiveGame(102, 3, 1, 60, 41)>>,
      <<LiveGame(102, 3, 1, 66, 60)>>,
      <<LiveGame(101, 1, 2, 70, 48)>> }

Boxes ==
    [ game_id \in GameIds |->
        IF game_id = 101
        THEN { EmptyBox,
               [home |-> <<R1, R2, R3>>, away |-> <<R4, R5>>],
               [home |-> <<R2>>, away |-> <<R4>>] }
        ELSE { EmptyBox, [home |-> <<R6>>, away |-> <<R1, R3>>] } ]

\* prop lines a caller may supply
SomeLines ==
    [key \in PropKeys |->
        CASE key = <<1, "points">> -> <<24 * Scale + 500>>
          [] key = <<2, "assists">> -> <<500>>
          [] key = <<3, "points">> -> <<5 * Scale + 500>>
          [] key = <<4, "rebounds">> -> <<0>>
          [] key = <<5, "points">> -> <<2 * Scale + 500>>
          [] OTHER -> <<>>]

LineSets == {NoLines, SomeLines}

EngineIdle(ids) ==
    /\ nba \in UpstreamStatuses
    /\ outages = 0
    /\ _team_ratings_cache = [t \in 1..3 |-> <<>>]
    /\ cache_writer = [t \in 1..3 |-> 0]
    /\ call = [c \in ids |-> IdleCall]
    /\ totals_engine = NoTotalsEngine

\* no scoring function is being called on its own
NoProbe == [fn |-> "none", args |-> <<>>, out |-> <<>>]

PropQuiet ==
    /\ props = <<>>
    /\ props0 = <<>>
    /\ svc = <<>>
    /\ prop_analyses = <<>>
    /\ slip = <<>>
    /\ probe = NoProbe

InitHalftime == EngineIdle({1}) /\ PropQuiet

NextHalftime ==
    \/ \E c \in DOMAIN call :
          \/ Start(c, GameIds, LineSets)
          \/ FetchGames(c, Scoreboards)
          \/ FetchBox(c, Boxes)
          \/ RatingsCheck(c)
          \/ FetchAdvanced(c)
          \/ FetchOpponent(c)
          \/ B2BHome(c)
          \/ B2BAway(c)
          \/ AnalyzePlayer(c)
          \/ Finish(c)
    \/ UpstreamChange

SpecHalftime == InitHalftime /\ [][NextHalftime]_vars

(***************************************************************************)
(* The module-level engine serving two requests                            *)
(***************************************************************************)
R7 == Row(5, "T2", 9000, 8, 0, 0, 0, 1, 3, 6, 0, 1, 2, 2, 3, FALSE)

Requests == {1, 2}

TwoGames == {<<LiveGame(101, 1, 2, 55, 52), LiveGame(102, 3, 1, 60, 41)>>}

PlainBoxes ==
    [ game_id \in GameIds |->
        IF game_id = 101 THEN {[home |-> <<>>, away |-> <<R7>>]}
        ELSE {[home |-> <<R6>>, away |-> <<>>]} ]

\* the first request is for game 101, the second for either game
RequestGames(c) == IF c = 1 THEN {101} ELSE GameIds

Init == EngineIdle(Requests) /\ PropQuiet

Next ==
    \/ \E c \in DOMAIN call :
          \/ Start(c, RequestGames(c), {NoLines})
          \/ FetchGames(c, TwoGames)
          \/ FetchBox(c, PlainBoxes)
          \/ RatingsCheck(c)
          \/ FetchAdvanced(c)
          \/ FetchOpponent(c)
          \/ B2BHome(c)
          \/ B2BAway(c)
          \/ AnalyzePlayer(c)
          \/ Finish(c)
    \/ UpstreamChange

Spec == Init /\ [][Next]_vars

(***************************************************************************)
(* A GameTotalsEngine object and its analyze() runs                        *)
(***************************************************************************)
TotalsBoxes ==
    { [home |-> <<R1, R2, R3>>, away |-> <<R4, R5>>],
      [home |-> <<R2>>, away |-> <<R4>>],
      [home |-> <<R6>>, away |-> <<R1, R3>>] }

InitTotals == EngineIdle({1}) /\ PropQuiet

NextTotals ==
    \/ NewGameTotalsEngine
    \/ TotalsAnalyze(TotalsBoxes)
    \/ TotalsLookup
    \/ TotalsReturn
    \/ UpstreamChange

SpecTotals == InitTotals /\ [][NextTotals]_vars

(***************************************************************************)
(* analyze_bet_slip as a process: one loop iteration per step              *)
(***************************************************************************)
InitProp ==
    /\ props \in Slips
    /\ props0 = props
    /\ svc = <<>>
    /\ prop_analyses = <<>>
    /\ slip = <<>>
    /\ probe = NoProbe
    /\ EngineIdle({1})
    /\ nba = "ok"

\* one iteration of "for prop in props: analysis = await self.analyze_prop(prop)"
AnalyzeProp ==
    /\ slip = <<>>
    /\ Len(prop_analyses) < Len(props)
    /\ LET i == Len(prop_analyses) + 1
           prop == props[i]
       IN  \E us \in SearchUpstream(prop.player_name) \cup {NotAsked},
              uh \in StatsUpstream(prop.player_name) \cup {NotFetched} :
             LET searched == prop.player_id = 0
                 found == IF searched THEN search_player(us) ELSE 0
                 pid == ResolvedPlayerId(prop, found)
                 fetched == pid # 0
                 games == IF fetched THEN get_player_stats(uh) ELSE <<>>
             IN  /\ searched \/ us = NotAsked
                 /\ fetched \/ uh = NotFetched
                 /\ props' = [props EXCEPT ![i].player_id = pid]
                 /\ svc' = Append(svc, [searched |-> searched, search |-> us,
                                        fetched |-> fetched, stats |-> uh])
                 /\ prop_analyses' = Append(prop_analyses, PropAnalysisOf(prop, found, games))
                 /\ UNCHANGED <<props0, slip, probe>>
                 /\ UNCHANGED <<engineVars, totalsVars>>

\* the rest of analyze_bet_slip once every prop is analysed
AnalyzeBetSlipReturn ==
    /\ slip = <<>>
    /\ Len(prop_analyses) = Len(props)
    /\ slip' = <<BetSlipResult(prop_analyses)>>
    /\ UNCHANGED <<props, props0, svc, prop_analyses, probe>>
    /\ UNCHANGED <<engineVars, totalsVars>>

NextProp == AnalyzeProp \/ AnalyzeBetSlipReturn

SpecProp == InitProp /\ [][NextProp]_vars

(***************************************************************************)
(* The scoring functions called on their own, each once, on argument grids *)
(***************************************************************************)
\* factor maps _analyze_factors can return: none, all favourable, all unfavourable
FactorCases ==
    { NoFactors,
      [ has |-> [recent_trend |-> TRUE, consistency |-> TRUE, home_away |-> TRUE,
                 rest |-> TRUE, playing_time |-> TRUE],
        recent_trend |-> Scale, consistency |-> Scale, home_away |-> 0, rest |-> 0,
        playing_time |-> Scale ],
      [ has |-> [recent_trend |-> TRUE, consistency |-> TRUE, home_away |-> TRUE,
                 rest |-> TRUE, playing_time |-> TRUE],
        recent_trend |-> 0 - Scale, consistency |-> 0, home_away |-> 0, rest |-> 0,
        playing_time |-> 343 ] }

\* (hit_rate, factors, avg_stat, line)
ConfidenceArgs ==
    {0, 33333, 50 * Scale, 66666, 100 * Scale} \X FactorCases
        \X {0, 12 * Scale + 500, 20 * Scale, 40 * Scale} \X {15 * Scale, 20 * Scale + 500}

\* confidence_score values of the analyses of a slip
SlipConfidences == {0, 33330, 57990, 58 * Scale, 100 * Scale}
SlipArgs ==
    UNION {[1..n -> SlipConfidences] : n \in 0..MaxProps}
        \cup { <<64990, 65 * Scale, 65 * Scale>>, <<65 * Scale, 65 * Scale, 65010>>,
                <<49990, 50 * Scale, 50 * Scale>>, <<70 * Scale, 40 * Scale, 58010>> }

\* (projected_final, prop_line, first_half_value, historical_consistency, ts_pct,
\*  foul_trouble, blowout_warning, utilization_rate, plus_minus, opponent_def_rank,
\*  assist_to_turnover)
ConfidenceScoreArgs ==
    {5 * Scale, 21 * Scale, 30 * Scale} \X {10 * Scale, 24 * Scale + 500}
        \X {0, 8 * Scale, 16 * Scale} \X {20, 50, 80} \X {30 * Scale, 50 * Scale, 70 * Scale}
        \X BOOLEAN \X BOOLEAN \X {20 * Scale, 40 * Scale} \X {0 - 12, 0, 12}
        \X {3, 15, 28} \X {<<>>, <<500>>, <<3 * Scale>>}

\* halftime scores (home, away)
HalftimeScores == {30, 45, 48, 55, 62, 75}
ScoreArgs == HalftimeScores \X HalftimeScores

\* (pace_deviation, home_level, away_level, foul_trouble_count, blowout_risk, is_close)
TotalConfidenceArgs ==
    { a \in {0 - 12 * Scale, 0 - 7 * Scale, 0, 4900, 5 * Scale, 10 * Scale}
              \X shooting_variance_levels \X shooting_variance_levels
              \X (0..(2 * StarsPerTeam)) \X BOOLEAN \X BOOLEAN :
        ~(a[5] /\ a[6]) }

\* (projected_total, reference_line, season_avg_total, home_level, away_level, pace_deviation)
OverUnderArgs ==
    {205 * Scale, 221 * Scale + 700, 224 * Scale + 300, 231 * Scale}
        \X {<<>>, <<0>>, <<220 * Scale + 500>>, <<226 * Scale>>} \X {225 * Scale, 228 * Scale + 250}
        \X {"normal", "hot"} \X {"normal", "extreme_cold"} \X {0, 6 * Scale}

\* (home_score, away_score, season ratings available)
SpreadArgs == HalftimeScores \X HalftimeScores \X BOOLEAN

\* two confidences for the same direction
BandArgs == {c * (Scale \div 2) : c \in 0..200} \X {c * (Scale \div 2) : c \in 0..200}
LiveBandArgs == BOOLEAN \X (0..100) \X (0..100)
\* one projection and line, two sets of game conditions
\* (projected_total, reference_line, (home_level, away_level, pace_deviation) twice)
OverUnderBandArgs ==
    {219 * Scale, 222 * Scale, 224 * Scale, 226 * Scale, 229 * Scale, 231 * Scale}
        \X {<<225 * Scale>>}
        \X ({"normal", "hot"} \X {"normal", "extreme_cold"} \X {0, 6 * Scale})
        \X ({"normal", "hot"} \X {"normal", "extreme_cold"} \X {0, 6 * Scale})

\* (games, line, over_under): short histories of every shape and ten equal games
HitRateArgs ==
    ( UNION { [1..n -> {Game(v, "num", 30, 0) : v \in {NoneStat, 10, 20, 30}}] : n \in 0..MaxGames }
          \cup { [i \in 1..LongGames |-> Game(20, "num", 30, 0)] } )
        \X {15 * Scale, 20 * Scale, 20 * Scale + Scale \div 2} \X {"over", "under"}

\* (reference_line, distance of the projection from it, home_level, away_level,
\*  pace_deviation)
OverUnderMirrorArgs ==
    {220 * Scale + 500, 226 * Scale}
        \X {0, Scale, 1500, 1600, 2 * Scale, 2100, 4 * Scale, 4100, 5 * Scale}
        \X {"normal", "hot"} \X {"normal", "extreme_cold"} \X {0, 6 * Scale}

\* (first_half_value, first_half_minutes, projected_minutes, pace_factor,
\*  utilization_rate, fatigue_factor, historical_2h_avg, blowout_warning, ts_pct,
\*  plus_minus, opponent_def_rank, score_diff) of a points projection
ProjectionArgs ==
    {0, 12 * Scale} \X {0, 16 * Scale} \X {12 * Scale, 16 * Scale} \X {Scale, 1100} \X
    {20 * Scale, 35 * Scale} \X {920, Scale} \X {<<>>, <<9 * Scale>>} \X BOOLEAN \X
    {50 * Scale, 72 * Scale} \X {0 - 10, 0} \X {3, 15} \X {3, 25}

\* (current_total, the six remaining-game projections)
CombinationArgs ==
    {100 * Scale, 120 * Scale} \X
    [ {"pace_projected_remaining", "shooting_projected_remaining", "star_projected_remaining",
       "game_flow_projected_remaining", "ratings_projected_remaining",
       "regression_projected_remaining"} -> {100 * Scale, 110 * Scale} ]

\* (fouls, minutes in milli-minutes)
FoulArgs == (0..5) \X {0, 7500, 8 * Scale, 8500, 10 * Scale, 15900, 16 * Scale, 24 * Scale}

\* (home score, away score) with differentials around the threshold
BlowoutArgs == {50, 60} \X (38..82)

\* (period, clock) of a snapshot
Clocks ==
    { Clock(fmt, m, sec) : fmt \in {"colon", "iso"}, m \in {0, 5, 11}, sec \in {0, 30, 59} }
        \cup { Clock("colon", 12, 0), Clock("iso", 12, 0), Clock("empty", 0, 0) }
ElapsedArgs == (1..5) \X Clocks

\* star players of a snapshot with the season scoring average the lookup gave:
\* none, a bench scorer far above a 4.0 average, a 21.3 scorer with three fouls
\* next to him, and a starter without season data
StarSets ==
    { <<>>,
      << <<R1, <<4 * Scale>>>> >>,
      << <<R4, <<21300>>>>, <<R2, <<12 * Scale>>>> >>,
      << <<R6, <<>>>>, <<R1, <<4 * Scale>>>>, <<R5, <<3 * Scale>>>> >> }

\* shooting profiles: no regression, and a hot-shooting team of many threes
ShootingProfiles ==
    { [shooting_regression_factor |-> Scale, live_fg3_rate |-> 38 * Scale],
      [shooting_regression_factor |-> 960, live_fg3_rate |-> 48 * Scale] }

\* (period, clock, <<home score, away score>>, stars, home shooting profile)
TotalsArgs ==
    (1..5) \X { Clock("colon", 0, 0), Clock("colon", 5, 30), Clock("colon", 12, 0),
                Clock("iso", 0, 0), Clock("iso", 5, 30), Clock("empty", 0, 0) }
           \X { <<55, 52>>, <<60, 38>>, <<58, 70>> } \X StarSets \X ShootingProfiles

\* (period, clock, <<home score, away score>>) of a live snapshot
PaceArgs == (1..4) \X Clocks \X { <<55, 52>>, <<60, 38>>, <<31, 27>> }

\* a player who has not entered the game
Benched == Row(3, "T1", 0, 0, 0, 0, 0, 0, 0, 0, 0, 0, 0, 0, 0, FALSE)

\* (player row, prop type, season stats or None, <<home score, away score>>,
\*  is_back_to_back)
PlayerArgs ==
    {R1, R2, R3, R4, R5, R6, Benched} \X Range(default_prop_types)
        \X {<<>>, <<SeasonStatsOf(GameLogMeans(1)[1])>>}
        \X { <<55, 52>>, <<60, 38>> } \X BOOLEAN

Asked(fn, args) == [fn |-> fn, args |-> args, out |-> <<>>]

InitScores ==
    /\ \/ \E a \in ConfidenceArgs : probe = Asked("_calculate_confidence", a)
       \/ \E a \in SlipArgs : probe = Asked("analyze_bet_slip", a)
       \/ \E a \in HitRateArgs : probe = Asked("_calculate_hit_rate", a)
       \/ \E a \in ConfidenceScoreArgs : probe = Asked("_calculate_confidence_score", a)
       \/ \E a \in ScoreArgs : probe = Asked("analyze_game_totals", a)
       \/ \E a \in TotalConfidenceArgs : probe = Asked("_calculate_total_confidence", a)
       \/ \E a \in OverUnderArgs : probe = Asked("_calculate_over_under", a)
       \/ \E a \in SpreadArgs : probe = Asked("_predict_spread", a)
       \/ \E a \in BandArgs : probe = Asked("_generate_recommendation", a)
       \/ \E a \in LiveBandArgs : probe = Asked("recommendation", a)
       \/ \E a \in OverUnderBandArgs : probe = Asked("over_under.recommendation", a)
       \/ \E a \in OverUnderMirrorArgs : probe = Asked("over_under.mirror", a)
       \/ \E a \in ProjectionArgs : probe = Asked("_calculate_second_half_projection", a)
       \/ \E a \in CombinationArgs : probe = Asked("weighted_combination", a)
       \/ \E a \in FoulArgs : probe = Asked("_detect_foul_trouble", a)
       \/ \E a \in BlowoutArgs : probe = Asked("blowout", a)
       \/ \E a \in ElapsedArgs : probe = Asked("_elapsed_minutes", a)
       \/ \E a \in TotalsArgs : probe = Asked("analyze", a)
       \/ \E a \in PaceArgs : probe = Asked("pace_factor", a)
       \/ \E a \in PlayerArgs : probe = Asked("analyze_halftime_player", a)
    /\ props = <<>>
    /\ props0 = <<>>
    /\ svc = <<>>
    /\ prop_analyses = <<>>
    /\ slip = <<>>
    /\ EngineIdle({1})
    /\ nba = "ok"

\* the call of fn returns result
Answers(fn, result) ==
    /\ probe.fn = fn
    /\ probe.out = <<>>
    /\ probe' = [probe EXCEPT !.out = <<result>>]
    /\ UNCHANGED <<props, props0, svc, prop_analyses, slip>>
    /\ UNCHANGED <<engineVars, totalsVars>>

\* analyze_prop, lines 115-129
CallCalculateConfidence ==
    LET a == probe.args
        confidence == _calculate_confidence(a[1], a[2], a[3], a[4])
    IN  Answers("_calculate_confidence",
                [ confidence |-> Round2(confidence),
                  recommendation |-> _generate_recommendation(confidence),
                  returned |-> confidence ])

\* analyze_prop, line 93
CallCalculateHitRate ==
    LET a == probe.args
    IN  Answers("_calculate_hit_rate",
                _calculate_hit_rate(a[1], [line |-> a[2], over_under |-> a[3]]))

\* analyze_bet_slip, lines 344-375, on analyses with the given confidence scores
CallAnalyzeBetSlip ==
    LET analyses == [i \in DOMAIN probe.args |->
                        [prop_id |-> i, confidence_score |-> probe.args[i]]]
    IN  Answers("analyze_bet_slip",
                [ confidence |-> BetSlipResult(analyses).overall_confidence,
                  recommendation |-> BetSlipResult(analyses).risk_assessment,
                  recommended_bets |-> BetSlipResult(analyses).recommended_bets ])

CallCalculateConfidenceScore ==
    LET a == probe.args
        r == _calculate_confidence_score(a[1], a[2], a[3], a[4], [ts_pct |-> a[5]],
                                         a[6], a[7], a[8], a[9], a[10], a[11])
    IN  Answers("_calculate_confidence_score",
                [confidence |-> r[1] * Scale, recommendation |-> r[2]])

\* halftime_engine.analyze_game_totals on a game with the given halftime score
CallAnalyzeGameTotals ==
    LET r == analyze_game_totals(LiveGame(101, 1, 2, probe.args[1], probe.args[2]),
                                 DefaultRatings(1), DefaultRatings(2))
    IN  Answers("analyze_game_totals",
                [confidence |-> r.total_confidence, recommendation |-> r.pace_rating])

CallCalculateTotalConfidence ==
    LET a == probe.args
    IN  Answers("_calculate_total_confidence",
                [ confidence |->
                      _calculate_total_confidence(a[1], a[2], a[3], a[4], a[5], a[6]) * Scale,
                  recommendation |-> "" ])

CallCalculateOverUnder ==
    LET a == probe.args
        r == _calculate_over_under(a[1], 4 * Scale, a[2], a[3], a[4], a[5], a[6])
    IN  Answers("_calculate_over_under",
                [ confidence |-> r.confidence, recommendation |-> r.recommendation,
                  reference_line |-> r.reference_line ])

CallPredictSpread ==
    LET a == probe.args
        ratings(t) == IF a[3] THEN <<DefaultRatings(t)>> ELSE <<>>
        r == _predict_spread(LiveGame(101, 1, 2, a[1], a[2]), ratings(1), ratings(2))
    IN  Answers("_predict_spread",
                [ confidence |-> r.spread_confidence,
                  recommendation |-> IF r.home_lead THEN "home" ELSE "away" ])

\* _generate_recommendation on two confidences
CallGenerateRecommendation ==
    Answers("_generate_recommendation",
            [ first |-> _generate_recommendation(probe.args[1]),
              second |-> _generate_recommendation(probe.args[2]) ])

\* lines 723-743 of _calculate_confidence_score on two confidences, the sign of
\* (projected_final - prop_line) the same
CallRecommendation ==
    Answers("recommendation",
            [ first |-> LiveRecommendation(probe.args[1], probe.args[2]),
              second |-> LiveRecommendation(probe.args[1], probe.args[3]) ])

\* _calculate_over_under twice with the same projection and line
CallOverUnderTwice ==
    LET a == probe.args
        r(g) == _calculate_over_under(a[1], 4 * Scale, a[2], 225 * Scale, g[1], g[2], g[3])
    IN  Answers("over_under.recommendation", [first |-> r(a[3]), second |-> r(a[4])])

\* _calculate_over_under on a projection above the line and on the one as far below it
CallOverUnderMirrored ==
    LET a == probe.args
        r(p) == _calculate_over_under(p, 4 * Scale, <<a[1]>>, 225 * Scale, a[3], a[4], a[5])
    IN  Answers("over_under.mirror", [first |-> r(a[1] + a[2]), second |-> r(a[1] - a[2])])

\* _calculate_second_half_projection returns (projected, components); components is
\* <<>> for the empty dict of the early return
CallSecondHalfProjection ==
    LET a == probe.args
        shooting == [ts_pct |-> a[9], fg3_pct |-> 0]
    IN  Answers("_calculate_second_half_projection",
                [ projected |->
                      _calculate_second_half_projection(a[1], a[2], a[3], a[4], a[5], a[6],
                          a[7], a[8], shooting, a[10], a[11], "points", 8, 2, a[12]),
                  components |->
                      IF a[2] <= 0 THEN <<>>
                      ELSE <<ProjectionComponents(a[1], a[2], a[3], a[4], a[5], a[6], a[7],
                                 a[8], shooting, a[10], a[11], "points", 8, 2, a[12])>> ])

\* lines 354-364 of GameTotalsEngine.analyze
CallWeightedCombination ==
    Answers("weighted_combination", WeightedCombination(probe.args[1], probe.args[2]))

\* analyze_halftime_player, line 783
CallDetectFoulTrouble ==
    Answers("_detect_foul_trouble", _detect_foul_trouble(probe.args[1], probe.args[2]))

\* the blowout flag of a player projection (halftime_engine.py line 784), of the
\* basic totals (line 938) and of the advanced totals (game_totals_engine.py line
\* 313) for one game
CallBlowoutFlags ==
    LET game_data == LiveGame(101, 1, 2, probe.args[1], probe.args[2])
    IN  Answers("blowout",
                [ blowout_warning |-> _detect_blowout(score_differential(game_data)),
                  basic |-> analyze_game_totals(game_data, DefaultRatings(1),
                                                DefaultRatings(2)).blowout_risk,
                  advanced |-> GameFlow(game_data).blowout_risk ])

\* GameTotalsEngine.analyze, line 288
CallElapsedMinutes ==
    Answers("_elapsed_minutes", _elapsed_minutes(probe.args[1], probe.args[2]))

\* GameTotalsEngine.analyze on a snapshot of game 101, team 1 with fetched and
\* team 2 with default ratings, 48.2 and 50.6 possessions so far
CallAnalyze ==
    LET a == probe.args
        game_data == Snapshot(a[1], a[2], a[3][1], a[3][2])
    IN  Answers("analyze",
                TotalsProjection(game_data,
                    [estimated_possessions |-> 48200, total_points |-> a[3][1]],
                    [estimated_possessions |-> 50600, total_points |-> a[3][2]],
                    WithOpponent(WithAdvanced(DefaultRatings(1), 1), 1), DefaultRatings(2),
                    a[5], [shooting_regression_factor |-> Scale, live_fg3_rate |-> 38 * Scale],
                    a[4]))

\* analyze_halftime_player, line 779: the pace factor of a player projection
CallPaceFactor ==
    LET a == probe.args
    IN  Answers("pace_factor",
                _calculate_pace_factor(Snapshot(a[1], a[2], a[3][1], a[3][2]), 24))

\* analyze_halftime_player for a prop line of 10.5 in game 101, the player's
\* team being the row and R2, against team 2 with default ratings
CallAnalyzeHalftimePlayer ==
    LET a == probe.args
    IN  Answers("analyze_halftime_player",
                analyze_halftime_player(a[1], 10 * Scale + 500, a[2],
                    LiveGame(101, 1, 2, a[4][1], a[4][2]), <<a[1], R2>>,
                    DefaultRatings(2), <<DefaultRatings(1)>>, a[3], a[5]))

NextScores ==
    \/ CallCalculateConfidence
    \/ CallAnalyzeBetSlip
    \/ CallCalculateHitRate
    \/ CallCalculateConfidenceScore
    \/ CallAnalyzeGameTotals
    \/ CallCalculateTotalConfidence
    \/ CallCalculateOverUnder
    \/ CallPredictSpread
    \/ CallGenerateRecommendation
    \/ CallRecommendation
    \/ CallOverUnderTwice
    \/ CallOverUnderMirrored
    \/ CallSecondHalfProjection
    \/ CallWeightedCombination
    \/ CallDetectFoulTrouble
    \/ CallBlowoutFlags
    \/ CallElapsedMinutes
    \/ CallAnalyze
    \/ CallPaceFactor
    \/ CallAnalyzeHalftimePlayer

SpecScores == InitScores /\ [][NextScores]_vars

(***************************************************************************)
(* Properties of the prop-history analyzer (SpecProp)                      *)
(***************************************************************************)
\* the search for prop i was made and gave no player (it failed or matched nothing)
Unresolved(i) ==
    svc[i].searched /\ (svc[i].search.fail \/ svc[i].search.players = <<>>)

\* the history fetch for prop i was made and gave no game (it failed or was empty)
NoHistory(i) ==
    svc[i].fetched /\ (svc[i].stats.fail \/ svc[i].stats.data = <<>>)

\* C4: whenever the player identity cannot be resolved or the history is empty,
\* including when the search or the history fetch itself fails, analyze_prop
\* returns (it raises nothing) the default result: confidence 50.0, hit rate
\* 50.0, average_stat equal to the prop's line, recommendation "neutral" and a
\* non-empty explanatory note.
C4_DefaultResult ==
    /\ Len(svc) = Len(prop_analyses)
    /\ \A i \in DOMAIN prop_analyses :
          (Unresolved(i) \/ NoHistory(i)) =>
              /\ prop_analyses[i].confidence_score = 50 * Scale
              /\ prop_analyses[i].hit_rate_last_10 = 50 * Scale
              /\ prop_analyses[i].average_stat = props0[i].line
              /\ prop_analyses[i].recommendation = "neutral"
              /\ prop_analyses[i].analysis_notes # ""

\* a slip whose first prop met a failing search and whose second met a failing
\* history fetch, both answered with the default result
C4_Witness ==
    /\ Len(prop_analyses) = 2
    /\ svc[1].searched /\ svc[1].search.fail
    /\ svc[2].fetched /\ svc[2].stats.fail
    /\ prop_analyses[1].recommendation = "neutral"
    /\ prop_analyses[2].average_stat = props0[2].line

\* C7 (prop-history part): after analyze_prop / analyze_bet_slip every field of
\* each PropBetData passed in is what it was when the request started.
C7_InputsUnchanged ==
    \A i \in DOMAIN props : props[i] = props0[i]

(***************************************************************************)
(* Properties of one get_halftime_analysis request (SpecHalftime)          *)
(***************************************************************************)
Unavailable == {"timeout", "error"}

\* no game of the list the request fetched has the requested id
NoSuchGame(rec) == \A i \in DOMAIN rec.games : rec.games[i].game_id # rec.game_id

\* C2: get_halftime_analysis fails with the not-found error exactly when no game
\* of the fetched live game list has the requested id, and it fails in no other
\* way: with missing ratings, missing season stats, an empty box score or a
\* failing or timed-out collaborator it still returns its analysis.
C2_NotFoundOnlyForUnknownGame ==
    \A c \in DOMAIN call :
        call[c].pc = "done" =>
            /\ call[c].status \in {"ok", "not_found"}
            /\ (call[c].status = "not_found") <=> NoSuchGame(call[c])

\* a request answered although a ratings fetch timed out and a player's season
\* stats could not be fetched
C2_Witness ==
    \E c \in DOMAIN call :
        /\ call[c].pc = "done"
        /\ call[c].status = "ok"
        /\ \E i \in DOMAIN call[c].ratings_log : call[c].ratings_log[i].advanced = "timeout"
        /\ \E i \in DOMAIN call[c].season_seen : call[c].season_seen[i] = <<>>
        /\ call[c].player_analyses # <<>>

\* C3: whenever one of the two requests of a team-ratings fetch times out or
\* fails, _get_team_ratings returns the library defaults (offensive and
\* defensive rating 114.0, pace 100.0, every defensive rank 15) without raising;
\* a failing season-stats fetch counts as no season data; the request still
\* produces its player projections.
C3_DefaultsOnFailure ==
    \A c \in DOMAIN call :
        /\ call[c].status # "error"
        /\ \A i \in DOMAIN call[c].ratings_log :
              LET e == call[c].ratings_log[i]
              IN  (e.advanced \in Unavailable \/ e.opponent \in Unavailable) =>
                      /\ e.returned.off_rating = 114 * Scale
                      /\ e.returned.def_rating = 114 * Scale
                      /\ e.returned.pace = 100 * Scale
                      /\ e.returned.def_rank_pts = 15
                      /\ e.returned.def_rank_reb = 15
                      /\ e.returned.def_rank_ast = 15
                      /\ e.returned.def_rank_3pm = 15
        /\ Len(call[c].player_analyses) = Len(call[c].season_seen)

\* the line a (player, stat) pair is analysed against: the supplied one, else
\* twice the first-half value
LineOf(rec, player, prop_type) ==
    IF rec.prop_lines[<<player.player_id, prop_type>>] # <<>>
    THEN rec.prop_lines[<<player.player_id, prop_type>>][1]
    ELSE 2 * Scale * player[prop_type]

\* how many projections the request returned for the pair
ProjectionsFor(rec, player, prop_type) ==
    Cardinality({ i \in DOMAIN rec.player_analyses :
                    /\ rec.player_analyses[i].player_id = player.player_id
                    /\ rec.player_analyses[i].prop_type = prop_type })

\* C8 as stated: the request returns one projection for every (player, stat)
\* pair with minutes >= 5 and stat in {points, rebounds, assists}, with or
\* without a supplied line, and none for a player with fewer than 5 minutes.
C8_EveryPairProjected ==
    \A c \in DOMAIN call :
        (call[c].pc = "done" /\ call[c].status = "ok") =>
            \A p \in Range(AllPlayers(call[c].box_score)),
               t \in {"points", "rebounds", "assists"} :
                ProjectionsFor(call[c], p, t) =
                    IF p.minutes_float >= 5 * Scale THEN 1 ELSE 0

\* C8 amended: the request returns one projection for every (player, stat) pair
\* with minutes >= 5, stat in {points, rebounds, assists} and a positive line
\* (the supplied line, else twice the first-half value), analysed against that
\* line, and none for any other pair, so none for a player with fewer than 5
\* minutes.
C8_PositiveLinePairsProjected ==
    \A c \in DOMAIN call :
        (call[c].pc = "done" /\ call[c].status = "ok") =>
            \A p \in Range(AllPlayers(call[c].box_score)),
               t \in {"points", "rebounds", "assists"} :
                /\ ProjectionsFor(call[c], p, t) =
                       IF p.minutes_float >= 5 * Scale /\ LineOf(call[c], p, t) > 0
                       THEN 1 ELSE 0
                /\ \A i \in DOMAIN call[c].player_analyses :
                       LET a == call[c].player_analyses[i]
                       IN  (a.player_id = p.player_id /\ a.prop_type = t) =>
                               a.prop_line = LineOf(call[c], p, t)

\* an answered request without supplied lines whose box score has players above
\* and below 5 minutes and a player with 5 minutes and no point scored
C8_Witness ==
    \E c \in DOMAIN call :
        /\ call[c].pc = "done"
        /\ call[c].status = "ok"
        /\ call[c].prop_lines = NoLines
        /\ \E p \in Range(AllPlayers(call[c].box_score)) :
              p.minutes_float < 5 * Scale /\ p.points > 0
        /\ \E p \in Range(AllPlayers(call[c].box_score)) :
              /\ p.minutes_float >= 5 * Scale /\ p.points = 0
              /\ ProjectionsFor(call[c], p, "points") = 0
              /\ ProjectionsFor(call[c], p, "rebounds") = 1

\* the same (player, stat) pair with the same figures
SameProjection(s, a) ==
    /\ s.player_id = a.player_id
    /\ s.prop_type = a.prop_type
    /\ s.confidence_score = a.confidence_score
    /\ s.recommendation = a.recommendation
    /\ s.prop_line = a.prop_line
    /\ s.projected_final = a.projected_final

\* C9: the suggestion list holds exactly the player projections with confidence
\* >= 60 and recommendation strong_bet, bet or lean, one entry each, in order
\* of non-increasing confidence.
C9_SuggestionsAreQualifyingSorted ==
    \A c \in DOMAIN call :
        (call[c].pc = "done" /\ call[c].status = "ok") =>
            LET pa == call[c].player_analyses
                sg == call[c].suggestions
                good(a) == /\ a.confidence_score >= 60 * Scale
                           /\ a.recommendation \in {"strong_bet", "bet", "lean"}
            IN  /\ \A i \in DOMAIN pa :
                       Cardinality({j \in DOMAIN sg : SameProjection(sg[j], pa[i])}) =
                           IF good(pa[i]) THEN 1 ELSE 0
                /\ \A j \in DOMAIN sg : \E i \in DOMAIN pa : SameProjection(sg[j], pa[i])
                /\ \A j \in 1..(Len(sg) - 1) :
                       sg[j].confidence_score >= sg[j + 1].confidence_score

\* an answer with several suggestions of different confidence that leaves out
\* a projection of confidence between 50 and 60
C9_Witness ==
    \E c \in DOMAIN call :
        /\ call[c].pc = "done"
        /\ Len(call[c].suggestions) >= 2
        /\ call[c].suggestions[1].confidence_score
               > call[c].suggestions[Len(call[c].suggestions)].confidence_score
        /\ \E i \in DOMAIN call[c].player_analyses :
              /\ call[c].player_analyses[i].confidence_score >= 50 * Scale
              /\ call[c].player_analyses[i].confidence_score < 60 * Scale

(***************************************************************************)
(* Properties of the engine serving two requests (Spec)                    *)
(***************************************************************************)
\* C5: a ratings entry that a request reads from the memo was written by that
\* request itself or by a request for the same game (no entry carries an
\* expiry, so the exception of the claim never applies).
C5_MemoScopedToCall ==
    \A c \in DOMAIN call :
        \A i \in DOMAIN call[c].ratings_log :
            LET e == call[c].ratings_log[i]
            IN  e.writer = c \/ call[e.writer].game_id = call[c].game_id

\* what _get_team_ratings gives for team t on an engine that has served
\* nothing yet, stats.nba.com being in the given condition
FreshRatings(status, t) ==
    IF Raised(status) = "" THEN WithOpponent(WithAdvanced(DefaultRatings(t), t), t)
    ELSE DefaultRatings(t)

\* the player projections of the request's snapshots from pass k on, on such an engine
RECURSIVE FreshAnalyses(_, _, _)
FreshAnalyses(rec, status, k) ==
    IF k > PairCount(rec.box_score) THEN <<>>
    ELSE LET game_data == rec.game_data[1]
             this ==
                 PairAnalysis(game_data, rec.box_score, rec.prop_lines, k,
                     <<FreshRatings(status, game_data.home_team_id)>>,
                     <<FreshRatings(status, game_data.away_team_id)>>,
                     FreshRatings(status, OpponentOf(game_data, rec.box_score, k)),
                     get_player_season_stats(status, PairPlayer(rec.box_score, k).player_id),
                     is_back_to_back(status, game_data.home_team_id),
                     is_back_to_back(status, game_data.away_team_id))
         IN  (IF Analysed(rec.box_score, rec.prop_lines, k) THEN <<this>> ELSE <<>>)
                 \o FreshAnalyses(rec, status, k + 1)

\* C6: the projections of a request are a function of its snapshots and of the
\* collaborators' data alone: a request that met stats.nba.com in one condition
\* throughout returns what an engine that served nothing before returns for the
\* same snapshots in that condition.
C6_IndependentOfEarlierCalls ==
    \A c \in DOMAIN call :
        \A status \in UpstreamStatuses :
            (call[c].pc = "done" /\ call[c].status = "ok" /\ call[c].nba_seen = {status}) =>
                LET game_data == call[c].game_data[1]
                IN  /\ call[c].player_analyses = FreshAnalyses(call[c], status, 1)
                    /\ call[c].game_total_analysis =
                           << analyze_game_totals(game_data,
                                  FreshRatings(status, game_data.home_team_id),
                                  FreshRatings(status, game_data.away_team_id)) >>

(***************************************************************************)
(* Properties of the scoring functions (SpecScores)                        *)
(***************************************************************************)
ConfidenceFunctions ==
    { "_calculate_confidence", "analyze_bet_slip", "_calculate_confidence_score",
      "analyze_game_totals", "_calculate_total_confidence", "_calculate_over_under",
      "_predict_spread" }

\* C1: every confidence score the engines emit lies in [0, 100]: analyze_prop's
\* confidence_score, analyze_bet_slip's overall_confidence, the live player
\* confidence_score, the basic total_confidence, and the totals engine's
\* total_confidence, over/under confidence and spread_confidence.
C1_ConfidenceInRange ==
    (probe.fn \in ConfidenceFunctions /\ probe.out # <<>>) =>
        /\ probe.out[1].confidence >= 0
        /\ probe.out[1].confidence <= 100 * Scale

\* a prop whose hit rate is 0 and whose average is below the line, no factor
\* known: the sum is negative and the score is 0
C1_Witness ==
    /\ probe.fn = "_calculate_confidence"
    /\ probe.out # <<>>
    /\ probe.args[1] = 0
    /\ probe.args[2] = NoFactors
    /\ probe.args[3] < probe.args[4]
    /\ probe.out[1].confidence = 0

Rank(recommendation) ==
    CASE recommendation = "strong_avoid" -> 0
      [] recommendation = "avoid" -> 1
      [] recommendation = "neutral" -> 2
      [] recommendation = "lean" -> 3
      [] recommendation = "bet" -> 4
      [] recommendation = "strong_bet" -> 5

OverUnderRank(recommendation) ==
    CASE recommendation = "neutral" -> 0
      [] recommendation \in {"lean_over", "lean_under"} -> 1
      [] recommendation \in {"strong_over", "strong_under"} -> 2

\* C10: the recommendation does not go down when the confidence goes up: in
\* the prop-history bands, in the live classifier for a fixed sign of
\* (projection - line), and in the over/under classifier for a fixed edge
\* (strong_avoid < avoid < neutral < lean < bet < strong_bet; neutral < lean <
\* strong on either side of the total).
C10_MonotoneRecommendation ==
    probe.out # <<>> =>
        /\ (probe.fn = "_generate_recommendation" /\ probe.args[1] <= probe.args[2]) =>
               Rank(probe.out[1].first) <= Rank(probe.out[1].second)
        /\ (probe.fn = "recommendation" /\ probe.args[2] <= probe.args[3]) =>
               Rank(probe.out[1].first) <= Rank(probe.out[1].second)
        /\ (probe.fn = "over_under.recommendation"
                /\ probe.out[1].first.confidence <= probe.out[1].second.confidence) =>
               OverUnderRank(probe.out[1].first.recommendation)
                   <= OverUnderRank(probe.out[1].second.recommendation)

\* a projection below the line classified "avoid" at one confidence and "lean"
\* at a higher one
C10_Witness ==
    /\ probe.fn = "recommendation"
    /\ probe.out # <<>>
    /\ ~probe.args[1]
    /\ probe.args[2] < probe.args[3]
    /\ probe.out[1].first = "avoid"
    /\ probe.out[1].second = "lean"

\* C11: hit_rate is 100 times the number of games whose stat beats the line in
\* the prop's direction (above it for over, below it for under) divided by the
\* number of games with a stat that is not None, and 0 when there is no such
\* game; ten games of 20 against 15 over give 100.0.
C11_HitRate ==
    (probe.fn = "_calculate_hit_rate" /\ probe.out # <<>>) =>
        LET games == probe.args[1]
            line == probe.args[2]
            valid == {i \in DOMAIN games : games[i].v # NoneStat}
            hits == {i \in valid : IF probe.args[3] = "over"
                                   THEN games[i].v * Scale > line
                                   ELSE games[i].v * Scale < line}
            n == Cardinality(valid)
            h == Cardinality(hits)
            r == probe.out[1]
        IN  /\ n = 0 => r = 0
            /\ n > 0 => r * n <= 100 * Scale * h /\ 100 * Scale * h < (r + 1) * n
            /\ (Len(games) = 10 /\ (\A i \in DOMAIN games : games[i].v = 20)
                    /\ line = 15 * Scale /\ probe.args[3] = "over") => r = 100 * Scale

\* a history with a missing value, a hit and a miss: one of two valid games hits
C11_Witness ==
    /\ probe.fn = "_calculate_hit_rate"
    /\ probe.out = <<50 * Scale>>
    /\ Len(probe.args[1]) = 3
    /\ \E i \in DOMAIN probe.args[1] : probe.args[1][i].v = NoneStat

\* the weights of the claim
C12_Weights ==
    { <<"recent_trend", 8>>, <<"consistency", 10>>, <<"home_away", 5>>,
      <<"rest", 3>>, <<"playing_time", 8>> }

RECURSIVE C12_Sum(_, _)
C12_Sum(factors, ws) ==
    IF ws = {} THEN 0
    ELSE LET w == CHOOSE x \in ws : TRUE
         IN  (IF factors.has[w[1]] THEN factors[w[1]] * w[2] ELSE 0)
                 + C12_Sum(factors, ws \ {w})

C13_MeanAndRecommended ==
    LET confs == probe.args
        n == Len(confs)
        r == probe.out[1]
    IN  /\ n = 0 => r.confidence = 50 * Scale
        /\ n > 0 => Abs(r.confidence * n - SumSeq(confs)) <= 6 * n
        /\ Range(r.recommended_bets) = {i \in DOMAIN confs : confs[i] >= 58 * Scale}
        /\ \A i, j \in DOMAIN r.recommended_bets :
               i < j => r.recommended_bets[i] < r.recommended_bets[j]

C13_Band(c) ==
    IF c >= 65 * Scale THEN "low" ELSE IF c >= 50 * Scale THEN "medium" ELSE "high"

\* C13 as stated: overall_confidence is the mean of the per-prop confidences
\* (50.0 for an empty slip), risk_assessment is low when the reported overall
\* confidence is >= 65, medium when >= 50, else high, and recommended_bets are
\* exactly the prop ids whose confidence is >= 58.
C13_RiskFromReported ==
    (probe.fn = "analyze_bet_slip" /\ probe.out # <<>>) =>
        /\ C13_MeanAndRecommended
        /\ probe.out[1].recommendation = C13_Band(probe.out[1].confidence)

\* C13 amended: overall_confidence is the mean of the per-prop confidences
\* rounded to two decimals (50.0 for an empty slip), risk_assessment is low
\* when that mean before rounding is >= 65, medium when >= 50, else high, and
\* recommended_bets are exactly the prop ids whose confidence is >= 58.
C13_RiskFromMean ==
    (probe.fn = "analyze_bet_slip" /\ probe.out # <<>>) =>
        LET confs == probe.args
            n == Len(confs)
        IN  /\ C13_MeanAndRecommended
            /\ probe.out[1].recommendation =
                   IF n = 0 THEN "medium"
                   ELSE IF SumSeq(confs) >= 65 * Scale * n THEN "low"
                   ELSE IF SumSeq(confs) >= 50 * Scale * n THEN "medium"
                   ELSE "high"

\* three props of mean 64.9967: reported as 65.0, assessed medium, all three
\* recommended
C13_Witness ==
    /\ probe.fn = "analyze_bet_slip"
    /\ probe.out # <<>>
    /\ probe.args = <<64990, 65 * Scale, 65 * Scale>>
    /\ probe.out[1].confidence = 65 * Scale
    /\ probe.out[1].recommendation = "medium"
    /\ probe.out[1].recommended_bets = <<1, 2, 3>>

\* the bands of C14, edge and confidence in milli-units
C14_Band(edge, confidence) ==
    IF edge > 4 * Scale /\ confidence >= 65 * Scale THEN "strong_over"
    ELSE IF edge > 1500 /\ confidence >= 50 * Scale THEN "lean_over"
    ELSE IF edge < 0 - 4 * Scale /\ confidence >= 65 * Scale THEN "strong_under"
    ELSE IF edge < 0 - 1500 /\ confidence >= 50 * Scale THEN "lean_under"
    ELSE "neutral"

C14_Mirror(recommendation) ==
    CASE recommendation = "strong_over" -> "strong_under"
      [] recommendation = "lean_over" -> "lean_under"
      [] recommendation = "strong_under" -> "strong_over"
      [] recommendation = "lean_under" -> "lean_over"
      [] recommendation = "neutral" -> "neutral"

\* C14: the over/under recommendation is strong_over when edge > 4 and
\* confidence >= 65, otherwise lean_over when edge > 1.5 and confidence >= 50,
\* strong_under when edge < -4 and confidence >= 65, lean_under when edge < -1.5
\* and confidence >= 50, neutral in every other case (edge = projected total -
\* line used); edge 5.0 with confidence 70 gives strong_over; the negated edge
\* gives the same side of the band on the under side.
C14_OverUnderBands ==
    probe.out # <<>> =>
        /\ probe.fn = "_calculate_over_under" =>
               probe.out[1].recommendation =
                   C14_Band(probe.args[1] - probe.out[1].reference_line,
                            probe.out[1].confidence)
        /\ probe.fn = "over_under.mirror" =>
               LET up == probe.out[1].first
                   down == probe.out[1].second
                   d == probe.args[2]
               IN  /\ up.recommendation = C14_Band(d, up.confidence)
                   /\ down.recommendation = C14_Band(0 - d, down.confidence)
                   /\ down.recommendation = C14_Mirror(up.recommendation)
                   /\ (d = 5 * Scale /\ up.confidence = 70 * Scale) =>
                          up.recommendation = "strong_over"

\* edge 5.0 at confidence 70: strong_over, and strong_under for edge -5.0
C14_Witness ==
    /\ probe.fn = "over_under.mirror"
    /\ probe.out # <<>>
    /\ probe.args[2] = 5 * Scale
    /\ probe.out[1].first.confidence = 70 * Scale
    /\ probe.out[1].first.recommendation = "strong_over"
    /\ probe.out[1].second.recommendation = "strong_under"

\* the sum of a table's coefficients
RECURSIVE C15_Total(_, _)
C15_Total(weights, keys) ==
    IF keys = {} THEN 0
    ELSE LET k == CHOOSE x \in keys : TRUE
         IN  weights[k] + C15_Total(weights, keys \ {k})

\* every entry of the table times its own term, once
RECURSIVE C15_Dot(_, _, _, _)
C15_Dot(terms, term_of, weights, keys) ==
    IF keys = {} THEN 0
    ELSE LET k == CHOOSE x \in keys : TRUE
         IN  weights[k] * terms[term_of[k]] + C15_Dot(terms, term_of, weights, keys \ {k})

\* the term each TOTALS_WEIGHTS entry weighs
C15_TotalsTerm ==
    [ pace_component |-> "pace_projected_remaining",
      shooting_component |-> "shooting_projected_remaining",
      star_utilization |-> "star_projected_remaining",
      game_flow |-> "game_flow_projected_remaining",
      team_ratings |-> "ratings_projected_remaining",
      regression |-> "regression_projected_remaining" ]

\* x lies between the least and the greatest term
C15_Within(x, terms) ==
    /\ \E k \in DOMAIN terms : terms[k] <= x
    /\ \E k \in DOMAIN terms : x <= terms[k]

\* C15: the ten PROJECTION_WEIGHTS coefficients and the six TOTALS_WEIGHTS
\* coefficients each sum to exactly 1.0 (100 hundredths), and each weighted sum
\* is the sum over every entry of its table, taken once, of the entry times its
\* own term, so that the result lies between the least and the greatest term.
C15_WeightsSumToOne ==
    probe.out # <<>> =>
        /\ probe.fn = "_calculate_second_half_projection" /\ probe.out[1].components # <<>> =>
               LET components == probe.out[1].components[1]
                   keys == DOMAIN PROJECTION_WEIGHTS
               IN  /\ Cardinality(keys) = 10
                   /\ C15_Total(PROJECTION_WEIGHTS, keys) = 100
                   /\ DOMAIN components = keys
                   /\ probe.out[1].projected =
                          FloorDiv(C15_Dot(components, [k \in keys |-> k],
                                           PROJECTION_WEIGHTS, keys), 100)
                   /\ C15_Within(probe.out[1].projected, components)
        /\ probe.fn = "weighted_combination" =>
               LET remaining == probe.args[2]
                   keys == DOMAIN TOTALS_WEIGHTS
               IN  /\ Cardinality(keys) = 6
                   /\ C15_Total(TOTALS_WEIGHTS, keys) = 100
                   /\ {C15_TotalsTerm[k] : k \in keys} = DOMAIN remaining
                   /\ probe.out[1].projected_remaining =
                          FloorDiv(C15_Dot(remaining, C15_TotalsTerm, TOTALS_WEIGHTS, keys),
                                   100)
                   /\ C15_Within(probe.out[1].projected_remaining, remaining)
                   /\ probe.out[1].projected_final =
                          probe.args[1] + probe.out[1].projected_remaining

\* six equal estimates of 110 points remaining combine to 110 points
C15_Witness ==
    /\ probe.fn = "weighted_combination"
    /\ probe.out # <<>>
    /\ \A k \in DOMAIN probe.args[2] : probe.args[2][k] = 110 * Scale
    /\ probe.out[1].projected_remaining = 110 * Scale

\* C16: a live player's foul_trouble flag is true exactly when fouls >= 3 or
\* (minutes > 0 and fouls / minutes > 0.125); 3 fouls in 10 minutes is foul
\* trouble.
C16_FoulTrouble ==
    (probe.fn = "_detect_foul_trouble" /\ probe.out # <<>>) =>
        LET fouls == probe.args[1]
            minutes == probe.args[2]
        IN  /\ probe.out[1] <=>
                   \/ fouls >= 3
                   \/ minutes > 0 /\ fouls * Scale * Scale > 125 * minutes
            /\ (fouls = 3 /\ minutes = 10 * Scale) => probe.out[1]

\* one foul in 7.5 minutes: below three fouls, in foul trouble by the ratio
C16_Witness ==
    /\ probe.fn = "_detect_foul_trouble"
    /\ probe.args = <<1, 7500>>
    /\ probe.out = <<TRUE>>

\* C17: the blowout flag is true exactly when |home score - away score| >= 20,
\* the same for blowout_warning of the player projections and blowout_risk of
\* the basic and of the advanced totals projection: true at a differential of
\* 20, false at 19.
C17_BlowoutAt20 ==
    (probe.fn = "blowout" /\ probe.out # <<>>) =>
        LET diff == Abs(probe.args[1] - probe.args[2])
            flags == probe.out[1]
        IN  /\ flags.blowout_warning <=> diff >= 20
            /\ flags.basic <=> diff >= 20
            /\ flags.advanced <=> diff >= 20
            /\ diff = 20 => flags.blowout_warning /\ flags.basic /\ flags.advanced
            /\ diff = 19 => ~flags.blowout_warning /\ ~flags.basic /\ ~flags.advanced

\* a game at 60-40: all three flags raised
C17_Witness ==
    /\ probe.fn = "blowout"
    /\ probe.args = <<60, 40>>
    /\ probe.out # <<>>
    /\ probe.out[1].blowout_warning
    /\ probe.out[1].basic
    /\ probe.out[1].advanced

(***************************************************************************)
(* Properties of the team-ratings cache under two requests (Spec)          *)
(***************************************************************************)
\* the _get_team_ratings calls that returned so far: <<request, position in its log>>
RatingsCalls == {ci \in (DOMAIN call) \X (1..2) : ci[2] \in DOMAIN call[ci[1]].ratings_log}
RatingsCall(ci) == call[ci[1]].ratings_log[ci[2]]

\* the call was answered from _team_ratings_cache, without a request upstream
FromCache(e) == e.advanced = "" /\ e.opponent = ""

\* C18: the defaults of a failed or timed-out fetch are not kept in the cache:
\* a _get_team_ratings call for T that comes after a failed fetch for T asks
\* stats.nba.com again, so a call answered from the cache always returns T's
\* fetched ratings.
C18_FailedFetchNotKept ==
    \A ci \in RatingsCalls :
        FromCache(RatingsCall(ci)) =>
            RatingsCall(ci).returned = FreshRatings("ok", RatingsCall(ci).team_id)

\* C19: stats.nba.com is asked for a team's ratings at most once per team id
\* on the engine, however the requests interleave, and no call answered from
\* the cache returns a record of which only some fields were fetched.
C19_OncePerTeamNoPartial ==
    /\ \A ci, cj \in RatingsCalls :
           ( /\ RatingsCall(ci).team_id = RatingsCall(cj).team_id
             /\ ~FromCache(RatingsCall(ci))
             /\ ~FromCache(RatingsCall(cj)) ) => ci = cj
    /\ \A ci \in RatingsCalls :
           FromCache(RatingsCall(ci)) =>
               RatingsCall(ci).returned \in
                   { DefaultRatings(RatingsCall(ci).team_id),
                     FreshRatings("ok", RatingsCall(ci).team_id) }

(***************************************************************************)
(* Properties of the GameTotalsEngine season-stats cache (SpecTotals)      *)
(***************************************************************************)
\* C20: the season-stats cache is per analysis run: every analyze() run starts
\* from an empty cache, and no lookup of a run returns an entry (a cached
\* absence included) that an earlier run stored, also when both runs are on
\* the same engine object.
C20_CachePerRun ==
    /\ totals_engine.started_with = {}
    /\ \A i \in DOMAIN totals_engine.lookups :
           totals_engine.lookups[i].stored_in = totals_engine.lookups[i].run

(***************************************************************************)
(* Properties of the game clock and the totals projection (SpecScores)     *)
(***************************************************************************)
\* C21: for a snapshot in period P whose clock shows m minutes s seconds left,
\* written "M:SS" or in the ISO form, _elapsed_minutes returns
\* max(1, 12 (P - 1) + 12 - (m + s/60)), which lies between 12 (P - 1) and 12 P
\* whenever it exceeds 1.
C21_ElapsedMinutes ==
    (probe.fn = "_elapsed_minutes" /\ probe.out # <<>>
        /\ probe.args[2].fmt \in {"colon", "iso"}) =>
        LET P == probe.args[1]
            clock == probe.args[2]
            left == clock.m * Scale + (clock.s * Scale) \div 60
        IN  /\ probe.out[1] = Max(Scale, 12 * Scale * (P - 1) + 12 * Scale - left)
            /\ probe.out[1] > Scale =>
                   /\ 12 * Scale * (P - 1) <= probe.out[1]
                   /\ probe.out[1] <= 12 * Scale * P

\* the snapshot shows no game time remaining: period 4 with the clock at zero
\* or empty, or an overtime period
C22_NoTimeLeft(period, clock) ==
    \/ period = 4 /\ (clock.fmt = "empty" \/ (clock.m = 0 /\ clock.s = 0))
    \/ period >= 5

\* C22: when the snapshot shows no game time remaining, analyze projects 0
\* remaining points: projected_second_half_total = 0 and projected_final_total
\* = current_total, whatever the stars' hot/cold or foul status.
C22_NothingLeftToProject ==
    (probe.fn = "analyze" /\ probe.out # <<>>
        /\ C22_NoTimeLeft(probe.args[1], probe.args[2])) =>
        /\ probe.out[1].projected_second_half_total = 0
        /\ probe.out[1].projected_final_total = probe.out[1].current_total

\* C30: for every period and clock the quarter split conserves the projection
\* (before rounding, up to the last digit carried): home and away Q3 plus Q4
\* sum to the projected remaining points, the two projected final scores sum
\* to current total + projected remaining, and from period 4 on the Q3
\* projection is 0.
C30_QuartersConserve ==
    (probe.fn = "analyze" /\ probe.out # <<>>) =>
        LET r == probe.out[1]
            q == r.quarters
        IN  /\ Abs(q.home_q3 + q.away_q3 + q.home_q4 + q.away_q4 - r.projected_remaining) <= 2
            /\ Abs(q.home_proj_final + q.away_proj_final
                       - (r.current_total + r.projected_remaining)) <= 2
            /\ probe.args[1] >= 4 =>
                   /\ q.home_q3 = 0 /\ q.away_q3 = 0
                   /\ q.home.q3_projected = 0 /\ q.away.q3_projected = 0
                   /\ r.projected_q3_total = 0

\* period 3 with 5:30 on the clock: points are projected for both quarters
C30_Witness ==
    /\ probe.fn = "analyze"
    /\ probe.out # <<>>
    /\ probe.args[1] = 3
    /\ probe.args[2] = Clock("colon", 5, 30)
    /\ probe.out[1].quarters.home_q3 > 0
    /\ probe.out[1].quarters.away_q4 > 0
    /\ probe.out[1].projected_remaining > 10 * Scale

\* C23: after a successful ratings fetch each defensive rank of the record
\* (points, rebounds, assists, threes) is the team's position, counted from 1,
\* in ascending order of the corresponding opponent statistic, and the rank
\* handed to the opponent adjustment of a stat is the rank of that same stat.
C23_RanksByOwnStat ==
    /\ \A ci \in RatingsCalls :
           LET e == RatingsCall(ci)
           IN  (e.advanced = "ok" /\ e.opponent = "ok") =>
                   /\ e.returned.def_rank_pts = RankAscending("OPP_PTS", e.team_id)
                   /\ e.returned.def_rank_reb = RankAscending("OPP_REB", e.team_id)
                   /\ e.returned.def_rank_ast = RankAscending("OPP_AST", e.team_id)
                   /\ e.returned.def_rank_3pm = RankAscending("OPP_FG3M", e.team_id)
    /\ \A t \in Teams : \A prop_type \in {"points", "rebounds", "assists", "threes"} :
           LET r == WithOpponent(DefaultRatings(t), t)
           IN  _get_opponent_def_rank_for_stat(r, prop_type) =
                   CASE prop_type = "points" -> r.def_rank_pts
                     [] prop_type = "rebounds" -> r.def_rank_reb
                     [] prop_type = "assists" -> r.def_rank_ast
                     [] OTHER -> r.def_rank_3pm

\* game minutes played when the clock of period P shows m:s (milli-minutes)
MinutesPlayed(period, clock) ==
    12 * Scale * (period - 1) + 12 * Scale - (clock.m * Scale + (clock.s * Scale) \div 60)

\* C24: the pace factor of a player projection is the points scored so far per
\* elapsed game minute of the snapshot, divided by the league's 225/48 points
\* per minute, at any period and clock and not only at halftime.
C24_PacePerElapsedMinute ==
    (probe.fn = "pace_factor" /\ probe.out # <<>> /\ probe.args[2].fmt # "empty"
        /\ MinutesPlayed(probe.args[1], probe.args[2]) > 0) =>
        LET total == probe.args[3][1] + probe.args[3][2]
            per_minute == (total * 48 * Scale) \div LEAGUE_AVG_TOTAL
            expected == (per_minute * Scale) \div MinutesPlayed(probe.args[1], probe.args[2])
        IN  Abs(probe.out[1] - expected) <= 2

\* C25: every entry of the suggestion list of an answer, which is stored and
\* presented as an 'over' pick, has a projected final value above its prop line.
C25_SuggestionsProjectOver ==
    \A c \in DOMAIN call :
        \A i \in DOMAIN call[c].suggestions :
            call[c].suggestions[i].projected_final > call[c].suggestions[i].prop_line

\* the band the live recommendation is documented to fall in
C28_Band(above, confidence) ==
    IF above
    THEN CASE confidence >= 75 -> "strong_bet"
           [] confidence >= 65 /\ confidence < 75 -> "bet"
           [] confidence >= 55 /\ confidence < 65 -> "lean"
           [] confidence >= 45 /\ confidence < 55 -> "neutral"
           [] OTHER -> "avoid"
    ELSE CASE confidence <= 25 -> "strong_avoid"
           [] confidence > 25 /\ confidence <= 35 -> "avoid"
           [] confidence > 35 /\ confidence <= 45 -> "neutral"
           [] OTHER -> "lean"

\* C28: with the projection above the line the live recommendation is
\* strong_bet from confidence 75, bet from 65, lean from 55, neutral from 45
\* and avoid below that; with the projection below the line it is strong_avoid
\* up to 25, avoid up to 35, neutral up to 45 and lean above that.
C28_LiveBands ==
    probe.out # <<>> =>
        /\ probe.fn = "recommendation" =>
               probe.out[1].first = C28_Band(probe.args[1], probe.args[2])
        /\ (probe.fn = "_calculate_confidence_score" /\ probe.args[1] # probe.args[2]) =>
               probe.out[1].recommendation =
                   C28_Band(probe.args[1] > probe.args[2], probe.out[1].confidence \div Scale)

\* a projection of 21 against a line of 24.5 with a confidence above 45,
\* classified "lean"
C28_Witness ==
    /\ probe.fn = "_calculate_confidence_score"
    /\ probe.out # <<>>
    /\ probe.args[1] < probe.args[2]
    /\ probe.out[1].confidence > 45 * Scale
    /\ probe.out[1].recommendation = "lean"

\* C26: in the answer of analyze_bet_slip a prop id is among recommended_bets
\* exactly when that prop's own recommendation is 'bet' or 'strong_bet', for
\* every confidence, those within rounding distance of 58 included.
C26_RecommendedAreBets ==
    slip # <<>> =>
        \A i \in DOMAIN slip[1].prop_analyses :
            LET a == slip[1].prop_analyses[i]
            IN  (a.prop_id \in Range(slip[1].recommended_bets))
                    <=> (a.recommendation \in {"bet", "strong_bet"})

\* the confidence of analysis a, and what it would be with the average on the line
C27_Confidence(a, avg_stat) ==
    _calculate_confidence(a.hit_rate_last_10, a.factors, avg_stat, a.line)

\* C27: the distance-from-line adjustment raises the confidence of a prop only
\* when the player's average lies on the side of the line that favours the
\* prop's direction (above it for an over, below it for an under), and does
\* not raise it when the average lies on the other side.
C27_BoostFavoursDirection ==
    \A i \in DOMAIN prop_analyses :
        LET a == prop_analyses[i]
            favours == \/ a.over_under = "over" /\ a.average_stat > a.line
                       \/ a.over_under = "under" /\ a.average_stat < a.line
            against == \/ a.over_under = "over" /\ a.average_stat < a.line
                       \/ a.over_under = "under" /\ a.average_stat > a.line
        IN  /\ C27_Confidence(a, a.average_stat) > C27_Confidence(a, a.line) => favours
            /\ against => C27_Confidence(a, a.average_stat) <= C27_Confidence(a, a.line)

\* C29: for a player row of non-negative stats and minutes the projected
\* second-half value is >= 0 and projected_final is the first-half value plus
\* the projected second-half value, hence never below the first-half value,
\* also when the first-half minutes are 0 (the second-half projection as
\* _calculate_second_half_projection returns it, the two fields as the
\* PlayerProjection reports them).
C29_FinalNotBelowFirstHalf ==
    probe.out # <<>> =>
        /\ probe.fn = "_calculate_second_half_projection" => probe.out[1].projected >= 0
        /\ probe.fn = "analyze_halftime_player" =>
               /\ probe.out[1].projected_second_half >= 0
               /\ probe.out[1].projected_final
                      = probe.out[1].first_half_value + probe.out[1].projected_second_half
               /\ probe.out[1].projected_final >= probe.out[1].first_half_value

\* a player with 16 first-half points and a positive second-half projection
C29_Witness ==
    /\ probe.fn = "analyze_halftime_player"
    /\ probe.out # <<>>
    /\ probe.args[1] = R1
    /\ probe.args[2] = "points"
    /\ probe.out[1].first_half_value = 16 * Scale
    /\ probe.out[1].projected_second_half > 0
    /\ probe.out[1].projected_final > 16 * Scale

====
